---- MODULE Spec2Model ----
(***************************************************************************)
(* Verification model of the notes backend: the bearer-token utility       *)
(* (utils/jwt.ts), the authentication middleware (middleware/auth.ts) and  *)
(* the owner-scoped note routes (routes/notes.ts).                         *)
(*                                                                         *)
(* Strings are sequences of symbols.  A symbol is a record [c, p]: c is    *)
(* the character (or, for a token segment, the segment's tag or signing    *)
(* key) and p the claims a token segment carries (NoClaims for a plain     *)
(* character).  A signed token is the three-segment string                 *)
(* header.payload.signature.                                               *)
(***************************************************************************)
EXTENDS Naturals, Integers, Sequences, FiniteSets, TLC

VARIABLES
    env,        \* process environment read at class load: JWT_SECRET, JWT_EXPIRE
    now,        \* clock, in seconds
    ticks,      \* number of clock advances so far (bounds the run)
    hin,        \* header value handed to extractTokenFromHeader
    hout,       \* its outcome
    accounts,   \* User collection: set of documents [_id, email, name, password]
    nextUid,    \* number of User documents ever inserted (ids are never reused)
    issued,     \* tokens the clients hold: the latest one minted for each account
    vres,       \* last verifyToken call: the token and the outcome
    notes,      \* Note collection: set of documents
    nextNid,    \* number of Note documents ever inserted (ids are never reused)
    resp,       \* last HTTP response sent
    req,        \* the note request it answers: the caller's header and the id
    g,          \* the request inside an authentication guard
    inflight,   \* requests between two awaits of their handler, by slot
    proc        \* module-level state of the process: cached instances

vars == <<env, now, ticks, hin, hout, accounts, nextUid, issued, vres,
          notes, nextNid, resp, req, g, inflight, proc>>

-----------------------------------------------------------------------------
(* Bounds *)

MaxTokLen == 3      \* longest remainder after the scheme prefix in a header
MaxTicks == 2       \* clock advances in one run
MaxUsers == 2       \* User documents inserted in one run
MaxNotes == 1       \* Note documents inserted in one run of the single-note routes
MaxBoots == 2       \* application instances built, and registrations tried on one

MaxInflight == 2    \* requests that can be inside a handler at the same time

MaxListed == 2      \* Note documents inserted in one run of the list route

-----------------------------------------------------------------------------
(* Strings *)

Unset == "<unset>"

NoClaims == [id |-> "", email |-> "", name |-> "", iss |-> "", iat |-> 0, exp |-> 0]

Ch(x) == [c |-> x, p |-> NoClaims]

Str(s) == [i \in DOMAIN s |-> Ch(s[i])]

Whitespace == {" ", "\t"}

IsSpace(sym) == sym.p = NoClaims /\ sym.c \in Whitespace

\* String.prototype.startsWith
StartsWith(s, prefix) ==
    /\ Len(s) >= Len(prefix)
    /\ SubSeq(s, 1, Len(prefix)) = prefix

\* String.prototype.substring(n)
Substring(s, n) == SubSeq(s, n + 1, Len(s))

RECURSIVE TrimStart(_)
TrimStart(s) ==
    IF s = <<>> THEN <<>>
    ELSE IF IsSpace(Head(s)) THEN TrimStart(Tail(s))
    ELSE s

RECURSIVE TrimEnd(_)
TrimEnd(s) ==
    IF s = <<>> THEN <<>>
    ELSE IF IsSpace(s[Len(s)]) THEN TrimEnd(SubSeq(s, 1, Len(s) - 1))
    ELSE s

\* String.prototype.trim
Trim(s) == TrimEnd(TrimStart(s))

-----------------------------------------------------------------------------
(* JWTUtil.extractTokenFromHeader *)

Absent == [present |-> FALSE, value |-> <<>>]

Header(s) == [present |-> TRUE, value |-> s]

BearerPrefix == Str(<<"B", "e", "a", "r", "e", "r", " ">>)

ExtractOk(tok) == [ok |-> TRUE, token |-> tok, error |-> ""]

ExtractFail(msg) == [ok |-> FALSE, token |-> <<>>, error |-> msg]

\* variant: the remainder is returned as it stands
extractTokenFromHeader_NoTrim(authHeader) ==
    IF ~authHeader.present \/ authHeader.value = <<>>
    THEN ExtractFail("Authorization header is missing")
    ELSE IF ~StartsWith(authHeader.value, BearerPrefix)
    THEN ExtractFail("Invalid authorization header format")
    ELSE LET token == Substring(authHeader.value, 7)
         IN  IF token = <<>>
             THEN ExtractFail("Token is missing")
             ELSE ExtractOk(token)

extractTokenFromHeader(authHeader) ==
    IF ~authHeader.present \/ authHeader.value = <<>>
    THEN ExtractFail("Authorization header is missing")
    ELSE IF ~StartsWith(authHeader.value, BearerPrefix)
    THEN ExtractFail("Invalid authorization header format")
    ELSE LET token == Trim(Substring(authHeader.value, 7))
         IN  IF token = <<>>
             THEN ExtractFail("Token is missing")
             ELSE ExtractOk(token)

-----------------------------------------------------------------------------
(* Environment and token format *)

Fallback(v, d) == IF v = Unset THEN d ELSE v

\* private static readonly SECRET / EXPIRE
SECRET == Fallback(env.JWT_SECRET, "fallback-secret-key")

EXPIRE == Fallback(env.JWT_EXPIRE, "24h")

ISSUER == "notes-api"

\* the time-span strings the configuration uses, in seconds
Timespan(s) ==
    CASE s = "24h" -> 24 * 3600
      [] s = "1h"  -> 3600
      [] OTHER     -> 0

\* ObjectId.toString() and the cast of such a string back to an ObjectId
IdString(n) == "id" \o ToString(n)

IsObjectIdString(s) == \E n \in 1..(MaxUsers + 1) : IdString(n) = s

ObjectId(s) == CHOOSE n \in 1..(MaxUsers + 1) : IdString(n) = s

\* jwt.sign: header.payload.signature; the signature is the key applied
\* to the signed content
Sign(claims, key) ==
    << [c |-> "hdr", p |-> NoClaims],
       [c |-> "claims", p |-> claims],
       [c |-> key, p |-> claims] >>

WellFormed(tok) ==
    /\ Len(tok) = 3
    /\ tok[1] = [c |-> "hdr", p |-> NoClaims]
    /\ tok[2].c = "claims"

SignatureValid(tok, key) ==
    /\ tok[3].c = key
    /\ tok[3].p = tok[2].p

\* variant: the payload carries the name in the place of the email
generateToken_Swapped(user) ==
    Sign([id |-> IdString(user._id), email |-> user.name, name |-> user.email,
          iss |-> ISSUER, iat |-> now, exp |-> now + Timespan(EXPIRE)],
         SECRET)

\* variant: the expiry ignores the configured duration
generateToken_Fixed24h(user) ==
    Sign([id |-> IdString(user._id), email |-> user.email, name |-> user.name,
          iss |-> ISSUER, iat |-> now, exp |-> now + Timespan("24h")],
         SECRET)

generateToken(user) ==
    LET payload == [id |-> IdString(user._id), email |-> user.email, name |-> user.name]
    IN  Sign([id |-> payload.id, email |-> payload.email, name |-> payload.name,
              iss |-> ISSUER, iat |-> now, exp |-> now + Timespan(EXPIRE)],
             SECRET)

\* jsonwebtoken's verify with { issuer }: the checks in the library's order;
\* the class of the error it throws, or "" when the token is accepted
\* variant: verify called without the issuer option
JwtVerifyError_NoIssuer(tok, key, issuer) ==
    IF ~WellFormed(tok) THEN "JsonWebTokenError"
    ELSE IF ~SignatureValid(tok, key) THEN "JsonWebTokenError"
    ELSE IF now >= tok[2].p.exp THEN "TokenExpiredError"
    ELSE ""

JwtVerifyError(tok, key, issuer) ==
    IF ~WellFormed(tok) THEN "JsonWebTokenError"
    ELSE IF ~SignatureValid(tok, key) THEN "JsonWebTokenError"
    ELSE IF now >= tok[2].p.exp THEN "TokenExpiredError"
    ELSE IF tok[2].p.iss # issuer THEN "JsonWebTokenError"
    ELSE ""

VerifyOk(payload) == [ok |-> TRUE, payload |-> payload, error |-> ""]

VerifyFail(msg) == [ok |-> FALSE, payload |-> NoClaims, error |-> msg]

verifyToken(token) ==
    LET thrown == JwtVerifyError(token, SECRET, ISSUER)
    IN  IF thrown = "" THEN VerifyOk(token[2].p)
        ELSE IF thrown = "TokenExpiredError" THEN VerifyFail("Token has expired")
        ELSE IF thrown \in {"JsonWebTokenError", "NotBeforeError"}
        THEN VerifyFail("Invalid token")
        ELSE VerifyFail("Token verification failed")

-----------------------------------------------------------------------------
(* Header values: a scheme prefix followed by a remainder over a small     *)
(* alphabet with two whitespace characters                                 *)

RECURSIVE SeqsUpTo(_, _)
SeqsUpTo(S, n) ==
    IF n = 0 THEN {<<>>}
    ELSE LET shorter == SeqsUpTo(S, n - 1)
         IN  shorter \cup {Append(s, x) : s \in shorter, x \in S}

TokAlphabet == {" ", "\t", "t", "u"}

Remainders == {Str(s) : s \in SeqsUpTo(TokAlphabet, MaxTokLen)}

Prefixes ==
    { <<>>,
      BearerPrefix,
      Str(<<"B", "e", "a", "r", "e", "r">>),
      Str(<<"b", "e", "a", "r", "e", "r", " ">>),
      Str(<<"B", "a", "s", "i", "c", " ">>),
      Str(<<" ", "B", "e", "a", "r", "e", "r", " ">>) }

HeaderInputs == {Absent} \cup {Header(p \o r) : p \in Prefixes, r \in Remainders}

NotCalled == [called |-> FALSE, res |-> ExtractFail("")]

NoVres == [called |-> FALSE, kind |-> "", token |-> <<>>, at |-> 0, res |-> VerifyFail("")]

TestEnv == [JWT_SECRET |-> "test-secret-key", JWT_EXPIRE |-> "1h"]

\* the parts of the state a specification does not use
IdleClock == now = 0 /\ ticks = 0

IdleExtract == hin = Absent /\ hout = NotCalled

IdleAccounts == accounts = {} /\ nextUid = 0

IdleTokens == issued = {} /\ vres = NoVres

IdleNotes == notes = {} /\ nextNid = 0

NoResp == [route |-> "", status |-> 0, error |-> "", message |-> ""]

NoReq == [header |-> Absent, id |-> ""]

NoGuard ==
    [pc |-> "none", guard |-> "", route |-> "", kind |-> "", header |-> Absent,
     token |-> <<>>, payload |-> NoClaims, user |-> NoClaims, trace |-> <<>>,
     reply |-> NoResp]

IdleRequests == req = NoReq /\ g = NoGuard

NoInflight == <<>>

NoProc ==
    [instance |-> 0, cachedApp |-> 0, created |-> 0, attempts |-> <<>>,
     db |-> "down", pending |-> 0]

IdleProcess == inflight = NoInflight /\ proc = NoProc

-----------------------------------------------------------------------------
(* User model and the registration and login routes *)

\* lowercase: true on the email path
ToLower(e) == IF e = "A@x.com" THEN "a@x.com" ELSE e

\* pre-save hook: the stored password is a hash of the submitted one
HashPassword(pw) == "hash:" \o pw

comparePassword(user, candidate) == user.password = HashPassword(candidate)

FindUserByEmail(email) == {u \in accounts : u.email = ToLower(email)}

FindUserById(id) == {u \in accounts : u._id = id}

Emails == {"a@x.com", "A@x.com", "b@x.com"}

Names == {"Ann"}

Passwords == {"password123", "wrongpassword"}

Reply(route, status, error, message) ==
    [route |-> route, status |-> status, error |-> error, message |-> message]

\* the client of an account keeps the token of its latest registration or login
Hold(tok) == {t \in issued : t[2].p.id # tok[2].p.id} \cup {tok}

\* POST /auth/register
Register(email, password, name) ==
    /\ IF FindUserByEmail(email) # {}
       THEN /\ resp' = Reply("POST /auth/register", 409, "Conflict",
                             "User already exists with this email")
            /\ UNCHANGED <<accounts, nextUid, issued>>
       ELSE LET user == [_id |-> nextUid + 1, email |-> ToLower(email),
                         name |-> name, password |-> HashPassword(password)]
            IN  /\ nextUid < MaxUsers
                /\ accounts' = accounts \cup {user}
                /\ nextUid' = nextUid + 1
                /\ issued' = Hold(generateToken(user))
                /\ resp' = Reply("POST /auth/register", 201, "",
                                 "User registered successfully")
    /\ UNCHANGED <<inflight, proc, env, now, ticks, hin, hout, vres, notes, nextNid, req, g>>

\* POST /auth/login
\* variant: an unknown email is told apart from a wrong password
LoginReply_Reveal(email, password) ==
    LET found == FindUserByEmail(email)
    IN  IF found = {}
        THEN Reply("POST /auth/login", 401, "Unauthorized", "User not found")
        ELSE IF \A u \in found : ~comparePassword(u, password)
        THEN Reply("POST /auth/login", 401, "Unauthorized", "Invalid email or password")
        ELSE Reply("POST /auth/login", 200, "", "Login successful")

\* the reply of POST /auth/login: no account, wrong password, or success
LoginReply(email, password) ==
    LET found == FindUserByEmail(email)
    IN  IF found = {}
        THEN Reply("POST /auth/login", 401, "Unauthorized", "Invalid email or password")
        ELSE IF \A u \in found : ~comparePassword(u, password)
        THEN Reply("POST /auth/login", 401, "Unauthorized", "Invalid email or password")
        ELSE Reply("POST /auth/login", 200, "", "Login successful")

Login(email, password) ==
    /\ resp' = LoginReply(email, password)
    /\ IF LoginReply(email, password).status = 200
       THEN \E u \in FindUserByEmail(email) : issued' = Hold(generateToken(u))
       ELSE UNCHANGED issued
    /\ UNCHANGED <<inflight, proc, env, now, ticks, hin, hout, accounts, nextUid, vres, notes, nextNid, req, g>>

\* a User document removed directly in the store (collection clean-up)
RemoveAccount(u) ==
    /\ u \in accounts
    /\ accounts' = accounts \ {u}
    /\ UNCHANGED <<inflight, proc, env, now, ticks, hin, hout, nextUid, issued, vres, notes, nextNid, resp, req, g>>

\* the clock advances by one second or to one second short of a full span
Tick(d) ==
    /\ ticks < MaxTicks
    /\ d \in {1, Timespan(EXPIRE) - 1}
    /\ now' = now + d
    /\ ticks' = ticks + 1
    /\ UNCHANGED <<inflight, proc, env, hin, hout, accounts, nextUid, issued, vres, notes, nextNid, resp, req, g>>

-----------------------------------------------------------------------------
(* Tokens presented to verifyToken: the minted ones and what can be made   *)
(* of them with another key, another issuer, another expiry, or damage     *)

Claims(tok) == tok[2].p

Variants(tok) ==
    LET cl == Claims(tok)
    IN  { [kind |-> "minted", tok |-> tok],
          [kind |-> "wrong-secret", tok |-> Sign(cl, "wrong-secret-key")],
          [kind |-> "wrong-issuer",
           tok |-> Sign([cl EXCEPT !.iss = "wrong-issuer"], SECRET)],
          [kind |-> "past-expiry",
           tok |-> Sign([cl EXCEPT !.exp = cl.iat - 1], SECRET)],
          [kind |-> "wrong-issuer-past-expiry",
           tok |-> Sign([cl EXCEPT !.iss = "wrong-issuer", !.exp = cl.iat - 1], SECRET)],
          [kind |-> "tampered-payload",
           tok |-> <<tok[1], [c |-> "claims", p |-> [cl EXCEPT !.iss = "wrong-issuer"]],
                     tok[3]>>],
          [kind |-> "truncated", tok |-> SubSeq(tok, 1, 2)] }

Garbage ==
    { [kind |-> "garbage", tok |-> Str(<<"t">>)],
      [kind |-> "garbage", tok |-> Str(<<"i", "t", "h">>)] }

TokenInputs == Garbage \cup UNION {Variants(t) : t \in issued}

Verify(in) ==
    /\ in \in TokenInputs
    /\ vres' = [called |-> TRUE, kind |-> in.kind, token |-> in.tok, at |-> now,
                res |-> verifyToken(in.tok)]
    /\ UNCHANGED <<inflight, proc, env, now, ticks, hin, hout, accounts, nextUid, issued, notes, nextNid, resp, req, g>>

InitToken ==
    /\ env \in {TestEnv, [JWT_SECRET |-> Unset, JWT_EXPIRE |-> Unset]}
    /\ IdleClock
    /\ IdleExtract
    /\ IdleAccounts
    /\ IdleTokens
    /\ IdleNotes
    /\ IdleRequests
    /\ IdleProcess
    /\ resp = NoResp

NextToken ==
    \/ \E e \in Emails, n \in Names : Register(e, "password123", n)
    \/ \E e \in Emails, pw \in Passwords : Login(e, pw)
    \/ \E d \in {1, Timespan(EXPIRE) - 1} : Tick(d)
    \/ \E in \in TokenInputs : Verify(in)

SpecToken == InitToken /\ [][NextToken]_vars

-----------------------------------------------------------------------------
(* authMiddleware: the three checks of the mandatory guard in one step.    *)
(* `fault` is the store failing during the lookup.                         *)

Authenticated(payload) ==
    [ok |-> TRUE, user |-> payload, status |-> 0, error |-> "", message |-> ""]

Unauthorized(message) ==
    [ok |-> FALSE, user |-> NoClaims, status |-> 401, error |-> "Unauthorized",
     message |-> message]

StoreFaultMessage == "connect ECONNREFUSED"

\* User.findById(payload.id): the error it throws, or "" when it returns
FindByIdError(id, fault) ==
    IF ~IsObjectIdString(id) THEN "Cast to ObjectId failed"
    ELSE IF fault THEN StoreFaultMessage
    ELSE ""

authMiddleware(authHeader, fault) ==
    LET ex == extractTokenFromHeader(authHeader)
    IN  IF ~ex.ok THEN Unauthorized(ex.error)
        ELSE LET v == verifyToken(ex.token)
             IN  IF ~v.ok THEN Unauthorized(v.error)
                 ELSE IF FindByIdError(v.payload.id, fault) # ""
                 THEN Unauthorized(FindByIdError(v.payload.id, fault))
                 ELSE IF FindUserById(ObjectId(v.payload.id)) = {}
                 THEN Unauthorized("User not found")
                 ELSE Authenticated(v.payload)

-----------------------------------------------------------------------------
(* Note model and the note routes.  Each handler is a function of the      *)
(* caller, the request and the collection, giving the reply and the        *)
(* collection afterwards.                                                  *)

MaxTitleLength == 200

LongTitle == "<title of 201 characters>"

StrLen(x) == IF x = "" THEN 0 ELSE IF x = LongTitle THEN MaxTitleLength + 1 ELSE 1

Some(x) == [has |-> TRUE, v |-> x]

NoStr == [has |-> FALSE, v |-> ""]

NoTags == [has |-> FALSE, v |-> <<>>]

NoBool == [has |-> FALSE, v |-> FALSE]

NoteIdString(n) == "nid" \o ToString(n)

\* mongoose.Types.ObjectId.isValid on a route parameter
IsValidNoteId(id) == \E n \in 1..(MaxNotes + MaxListed) : NoteIdString(n) = id

NonBlank(tag) == Trim(tag) # <<>>

SanitizeTags_NoTrim(tags) == SelectSeq(tags, NonBlank)

\* tags.filter(tag => tag.trim().length > 0), then the schema's trim on each
SanitizeTags(tags) ==
    LET kept == SelectSeq(tags, NonBlank)
    IN  [i \in DOMAIN kept |-> Trim(kept[i])]

NoteReply(route, status, error, message, data) ==
    [route |-> route, status |-> status, error |-> error, message |-> message,
     data |-> data]

\* what a reply shows of a note: every field but the author
NoteView(n) ==
    [id |-> NoteIdString(n._id), title |-> n.title, content |-> n.content,
     tags |-> n.tags, isArchived |-> n.isArchived, createdAt |-> n.createdAt]

Outcome(reply, collection) == [reply |-> reply, notes |-> collection]

\* the route schema of POST /notes, checked before any hook runs
CreateSchemaError(body) ==
    IF ~body.title.has THEN "body must have required property 'title'"
    ELSE IF ~body.content.has THEN "body must have required property 'content'"
    ELSE IF StrLen(body.title.v) > MaxTitleLength
    THEN "body/title must NOT have more than 200 characters"
    ELSE ""

\* the required validators of the Note schema on the paths given
RequiredError(title, content) ==
    IF title.has /\ title.v = "" THEN "Title is required"
    ELSE IF content.has /\ content.v = "" THEN "Content is required"
    ELSE ""

\* POST /notes handler
CreateNote(caller, body, collection, nid) ==
    LET tags  == IF body.tags.has THEN body.tags.v ELSE <<>>
        note  == [_id |-> nid, title |-> body.title.v, content |-> body.content.v,
                  author |-> ObjectId(caller.id), tags |-> SanitizeTags(tags),
                  isArchived |-> FALSE, createdAt |-> now]
        error == RequiredError(body.title, body.content)
    IN  IF error # ""
        THEN Outcome(NoteReply("POST /notes", 400, "Validation Error", error, <<>>),
                     collection)
        ELSE Outcome(NoteReply("POST /notes", 201, "", "Note created successfully",
                               <<NoteView(note)>>),
                     collection \cup {note})

\* Note.findOne({ _id: id, author: authorId })
FindOwned(collection, id, caller) ==
    {n \in collection : NoteIdString(n._id) = id /\ n.author = ObjectId(caller.id)}

NotFound(route) == NoteReply(route, 404, "Not Found", "Note not found", <<>>)

BadId(route) == NoteReply(route, 400, "Bad Request", "Invalid note ID format", <<>>)

\* GET /notes/:id handler
GetNote(caller, id, collection) ==
    IF ~IsValidNoteId(id) THEN Outcome(BadId("GET /notes/:id"), collection)
    ELSE LET found == FindOwned(collection, id, caller)
         IN  IF found = {} THEN Outcome(NotFound("GET /notes/:id"), collection)
             ELSE Outcome(NoteReply("GET /notes/:id", 200, "", "",
                                    <<NoteView(CHOOSE n \in found : TRUE)>>),
                          collection)

\* variant: the delete query selects by id alone
DeleteNote_AnyOwner(caller, id, collection) ==
    IF ~IsValidNoteId(id) THEN Outcome(BadId("DELETE /notes/:id"), collection)
    ELSE LET found == {n \in collection : NoteIdString(n._id) = id}
         IN  IF found = {} THEN Outcome(NotFound("DELETE /notes/:id"), collection)
             ELSE Outcome(NoteReply("DELETE /notes/:id", 200, "",
                                    "Note deleted successfully", <<>>),
                          collection \ found)

\* DELETE /notes/:id handler
DeleteNote(caller, id, collection) ==
    IF ~IsValidNoteId(id) THEN Outcome(BadId("DELETE /notes/:id"), collection)
    ELSE LET found == FindOwned(collection, id, caller)
         IN  IF found = {} THEN Outcome(NotFound("DELETE /notes/:id"), collection)
             ELSE Outcome(NoteReply("DELETE /notes/:id", 200, "",
                                    "Note deleted successfully", <<>>),
                          collection \ found)

\* the route schema of PUT /notes/:id
UpdateSchemaError(body) ==
    IF body.title.has /\ StrLen(body.title.v) > MaxTitleLength
    THEN "body/title must NOT have more than 200 characters"
    ELSE ""

\* Object.keys(updates).length === 0
NoKeys(body) ==
    /\ ~body.title.has /\ ~body.content.has /\ ~body.tags.has
    /\ ~body.isArchived.has /\ ~body.author.has /\ ~body.extra

\* variant: the document is replaced, absent fields fall back to defaults
ApplyUpdate_Replace(n, body) ==
    [n EXCEPT
       !.title      = IF body.title.has THEN body.title.v ELSE @,
       !.content    = IF body.content.has THEN body.content.v ELSE @,
       !.tags       = IF body.tags.has THEN SanitizeTags(body.tags.v) ELSE <<>>,
       !.isArchived = IF body.isArchived.has THEN body.isArchived.v ELSE FALSE,
       !.author     = IF body.author.has THEN ObjectId(body.author.v) ELSE @]

\* the update document as the model casts it: keys outside the Note schema
\* are dropped, every path of the schema is kept and set
ApplyUpdate(n, body) ==
    [n EXCEPT
       !.title      = IF body.title.has THEN body.title.v ELSE @,
       !.content    = IF body.content.has THEN body.content.v ELSE @,
       !.tags       = IF body.tags.has THEN SanitizeTags(body.tags.v) ELSE @,
       !.isArchived = IF body.isArchived.has THEN body.isArchived.v ELSE @,
       !.author     = IF body.author.has THEN ObjectId(body.author.v) ELSE @]

\* variant: findOneAndUpdate with upsert, a missing note is inserted
UpdateNote_Upsert(caller, id, body, collection) ==
    IF ~IsValidNoteId(id) THEN Outcome(BadId("PUT /notes/:id"), collection)
    ELSE IF NoKeys(body)
    THEN Outcome(NoteReply("PUT /notes/:id", 400, "Bad Request", "No updates provided",
                           <<>>), collection)
    ELSE LET found == FindOwned(collection, id, caller)
             blank == [_id |-> CHOOSE n \in 1..(MaxNotes + MaxListed) :
                                   NoteIdString(n) = id,
                       title |-> "", content |-> "", author |-> ObjectId(caller.id),
                       tags |-> <<>>, isArchived |-> FALSE, createdAt |-> now]
             old   == IF found = {} THEN blank ELSE CHOOSE n \in found : TRUE
             new   == ApplyUpdate(old, body)
         IN  Outcome(NoteReply("PUT /notes/:id", 200, "",
                               "Note updated successfully", <<NoteView(new)>>),
                     (collection \ {old}) \cup {new})

\* variant: a note of another owner is reported as forbidden
UpdateNote_Forbidden(caller, id, body, collection) ==
    IF ~IsValidNoteId(id) THEN Outcome(BadId("PUT /notes/:id"), collection)
    ELSE IF NoKeys(body)
    THEN Outcome(NoteReply("PUT /notes/:id", 400, "Bad Request", "No updates provided",
                           <<>>), collection)
    ELSE IF body.author.has /\ ~IsObjectIdString(body.author.v)
    THEN Outcome(NoteReply("PUT /notes/:id", 500, "Internal Server Error",
                           "Failed to update note", <<>>), collection)
    ELSE IF RequiredError(body.title, body.content) # ""
    THEN Outcome(NoteReply("PUT /notes/:id", 400, "Validation Error",
                           RequiredError(body.title, body.content), <<>>), collection)
    ELSE LET found == FindOwned(collection, id, caller)
         IN  IF found = {} /\ \E n \in collection : NoteIdString(n._id) = id
             THEN Outcome(NoteReply("PUT /notes/:id", 403, "Forbidden",
                                    "Not your note", <<>>), collection)
             ELSE IF found = {} THEN Outcome(NotFound("PUT /notes/:id"), collection)
             ELSE LET old == CHOOSE n \in found : TRUE
                      new == ApplyUpdate(old, body)
                  IN  Outcome(NoteReply("PUT /notes/:id", 200, "",
                                        "Note updated successfully", <<NoteView(new)>>),
                              (collection \ {old}) \cup {new})

\* PUT /notes/:id handler
UpdateNote(caller, id, body, collection) ==
    IF ~IsValidNoteId(id) THEN Outcome(BadId("PUT /notes/:id"), collection)
    ELSE IF NoKeys(body)
    THEN Outcome(NoteReply("PUT /notes/:id", 400, "Bad Request", "No updates provided",
                           <<>>), collection)
    ELSE IF body.author.has /\ ~IsObjectIdString(body.author.v)
    THEN Outcome(NoteReply("PUT /notes/:id", 500, "Internal Server Error",
                           "Failed to update note", <<>>), collection)
    ELSE IF RequiredError(body.title, body.content) # ""
    THEN Outcome(NoteReply("PUT /notes/:id", 400, "Validation Error",
                           RequiredError(body.title, body.content), <<>>), collection)
    ELSE LET found == FindOwned(collection, id, caller)
         IN  IF found = {} THEN Outcome(NotFound("PUT /notes/:id"), collection)
             ELSE LET old == CHOOSE n \in found : TRUE
                      new == ApplyUpdate(old, body)
                  IN  Outcome(NoteReply("PUT /notes/:id", 200, "",
                                        "Note updated successfully", <<NoteView(new)>>),
                              (collection \ {old}) \cup {new})

DefaultPage == 1

DefaultLimit == 10

MaxLimit == 100

NoNum == [has |-> FALSE, v |-> 0]

Comma == Ch(",")

\* String.prototype.split(',')
RECURSIVE SplitComma(_)
SplitComma(s) ==
    IF \A i \in DOMAIN s : s[i] # Comma THEN <<s>>
    ELSE LET i == CHOOSE k \in DOMAIN s : s[k] = Comma /\ \A j \in 1..(k - 1) : s[j] # Comma
         IN  <<SubSeq(s, 1, i - 1)>> \o SplitComma(SubSeq(s, i + 1, Len(s)))

NonEmpty(x) == x # <<>>

\* variant: empty parts are kept
TagArray_KeepEmpty(tags) ==
    LET parts == SplitComma(tags)
    IN  [i \in DOMAIN parts |-> Trim(parts[i])]

\* tags.split(',').map(tag => tag.trim()).filter(tag => tag.length > 0)
TagArray(tags) ==
    LET parts == SplitComma(tags)
    IN  SelectSeq([i \in DOMAIN parts |-> Trim(parts[i])], NonEmpty)

\* the route schema of GET /notes
QuerySchemaError(q) ==
    IF q.page.has /\ q.page.v < 1 THEN "querystring/page must be >= 1"
    ELSE IF q.limit.has /\ q.limit.v < 1 THEN "querystring/limit must be >= 1"
    ELSE IF q.limit.has /\ q.limit.v > MaxLimit THEN "querystring/limit must be <= 100"
    ELSE ""

\* the text index on title and content
TextMatch(n, search) == search \in {n.title, n.content}

\* variant: the tag condition asks for every tag of the query
ListFilter_AllOf(caller, q, n) ==
    /\ n.author = ObjectId(caller.id)
    /\ q.archived.has => n.isArchived = q.archived.v
    /\ (q.tags.has /\ q.tags.v # <<>> /\ TagArray(q.tags.v) # <<>>) =>
           \A j \in DOMAIN TagArray(q.tags.v) :
               \E i \in DOMAIN n.tags : n.tags[i] = TagArray(q.tags.v)[j]
    /\ (q.search.has /\ q.search.v # "") => TextMatch(n, q.search.v)

\* variant: the archived condition is added only for a true value
ListFilter_Truthy(caller, q, n) ==
    /\ n.author = ObjectId(caller.id)
    /\ (q.archived.has /\ q.archived.v) => n.isArchived = q.archived.v
    /\ (q.tags.has /\ q.tags.v # <<>> /\ TagArray(q.tags.v) # <<>>) =>
           \E i \in DOMAIN n.tags, j \in DOMAIN TagArray(q.tags.v) :
               n.tags[i] = TagArray(q.tags.v)[j]
    /\ (q.search.has /\ q.search.v # "") => TextMatch(n, q.search.v)

\* variant: a tag filter replaces the filter instead of extending it
ListFilter_TagsOnly(caller, q, n) ==
    IF q.tags.has /\ q.tags.v # <<>> /\ TagArray(q.tags.v) # <<>>
    THEN \E i \in DOMAIN n.tags, j \in DOMAIN TagArray(q.tags.v) :
             n.tags[i] = TagArray(q.tags.v)[j]
    ELSE /\ n.author = ObjectId(caller.id)
         /\ q.archived.has => n.isArchived = q.archived.v
         /\ (q.search.has /\ q.search.v # "") => TextMatch(n, q.search.v)

\* the filter GET /notes builds, applied to one document
ListFilter(caller, q, n) ==
    /\ n.author = ObjectId(caller.id)
    /\ q.archived.has => n.isArchived = q.archived.v
    /\ (q.tags.has /\ q.tags.v # <<>> /\ TagArray(q.tags.v) # <<>>) =>
           \E i \in DOMAIN n.tags, j \in DOMAIN TagArray(q.tags.v) :
               n.tags[i] = TagArray(q.tags.v)[j]
    /\ (q.search.has /\ q.search.v # "") => TextMatch(n, q.search.v)

Matching(caller, q, collection) == {n \in collection : ListFilter(caller, q, n)}

\* sort({ createdAt: -1 }): the orders the store may return, newest first
Orderings(S) ==
    {f \in [1..Cardinality(S) -> S] :
        /\ \A i, j \in DOMAIN f : i # j => f[i] # f[j]
        /\ \A i, j \in DOMAIN f : i < j => f[i].createdAt >= f[j].createdAt}

\* variant: the page count is rounded down
ListNotes_Floor(caller, q, collection, sorted) ==
    LET page       == IF q.page.has THEN q.page.v ELSE DefaultPage
        limit      == IF q.limit.has THEN q.limit.v ELSE DefaultLimit
        skip       == (page - 1) * limit
        last       == IF skip + limit < Len(sorted) THEN skip + limit ELSE Len(sorted)
        items      == SubSeq(sorted, skip + 1, last)
        totalNotes == Cardinality(Matching(caller, q, collection))
        totalPages == totalNotes \div limit
    IN  [route |-> "GET /notes", status |-> 200, error |-> "", message |-> "",
         data |-> [i \in DOMAIN items |-> NoteView(items[i])],
         pagination |-> [currentPage |-> page, totalPages |-> totalPages,
                         totalNotes |-> totalNotes, hasNext |-> page < totalPages,
                         hasPrev |-> page > 1]]

\* variant: an empty result still counts one page
ListNotes_OnePage(caller, q, collection, sorted) ==
    LET page       == IF q.page.has THEN q.page.v ELSE DefaultPage
        limit      == IF q.limit.has THEN q.limit.v ELSE DefaultLimit
        skip       == (page - 1) * limit
        last       == IF skip + limit < Len(sorted) THEN skip + limit ELSE Len(sorted)
        items      == SubSeq(sorted, skip + 1, last)
        totalNotes == Cardinality(Matching(caller, q, collection))
        totalPages == IF totalNotes = 0 THEN 1 ELSE (totalNotes + limit - 1) \div limit
    IN  [route |-> "GET /notes", status |-> 200, error |-> "", message |-> "",
         data |-> [i \in DOMAIN items |-> NoteView(items[i])],
         pagination |-> [currentPage |-> page, totalPages |-> totalPages,
                         totalNotes |-> totalNotes, hasNext |-> page < totalPages,
                         hasPrev |-> page > 1]]

\* GET /notes handler; `sorted` is the order the store returned
ListNotes(caller, q, collection, sorted) ==
    LET page       == IF q.page.has THEN q.page.v ELSE DefaultPage
        limit      == IF q.limit.has THEN q.limit.v ELSE DefaultLimit
        skip       == (page - 1) * limit
        last       == IF skip + limit < Len(sorted) THEN skip + limit ELSE Len(sorted)
        items      == SubSeq(sorted, skip + 1, last)
        totalNotes == Cardinality(Matching(caller, q, collection))
        totalPages == (totalNotes + limit - 1) \div limit
    IN  [route |-> "GET /notes", status |-> 200, error |-> "", message |-> "",
         data |-> [i \in DOMAIN items |-> NoteView(items[i])],
         pagination |-> [currentPage |-> page, totalPages |-> totalPages,
                         totalNotes |-> totalNotes, hasNext |-> page < totalPages,
                         hasPrev |-> page > 1]]

-----------------------------------------------------------------------------
(* The note routes behind the mandatory guard.  Two accounts are           *)
(* registered before the first note request.                               *)

TestUsers ==
    { [_id |-> 1, email |-> "a@x.com", name |-> "Ann",
       password |-> HashPassword("password123")],
      [_id |-> 2, email |-> "b@x.com", name |-> "Ann",
       password |-> HashPassword("password123")] }

Bearer(tok) == Header(BearerPrefix \o tok)

\* what the clients send as Authorization: nothing, a held token, or the
\* claims of a held token signed with another key
CallerHeaders ==
    {Absent} \cup {Bearer(t) : t \in issued}
             \cup {Bearer(Sign(Claims(t), "wrong-secret-key")) :
                     t \in {u \in issued : Claims(u).id = IdString(1)}}

NoteIds == {NoteIdString(n) : n \in 1..(MaxNotes + 1)} \cup {"invalid-id"}

DirtyTags == <<Str(<<" ", "x", " ">>), Str(<<>>), Str(<<" ", "\t">>), Str(<<"y">>)>>

NoBody ==
    [title |-> NoStr, content |-> NoStr, tags |-> NoTags, isArchived |-> NoBool,
     author |-> NoStr, extra |-> FALSE]

GoodBody == [NoBody EXCEPT !.title = Some("a"), !.content = Some("c")]

\* create bodies: a complete one and the ones that differ from it in one key
CreateBodies ==
    {GoodBody}
    \cup {[GoodBody EXCEPT !.title = t] : t \in {Some(""), Some(LongTitle), NoStr}}
    \cup {[GoodBody EXCEPT !.content = c] : c \in {Some(""), NoStr}}
    \cup {[GoodBody EXCEPT !.tags = Some(DirtyTags)],
          [GoodBody EXCEPT !.isArchived = Some(TRUE)],
          [GoodBody EXCEPT !.author = Some(IdString(2))]}

\* update bodies: no key or one key
UpdateBodies ==
    {NoBody}
    \cup {[NoBody EXCEPT !.title = Some(t)] : t \in {"b", "", LongTitle}}
    \cup {[NoBody EXCEPT !.content = Some("")]}
    \cup {[NoBody EXCEPT !.tags = Some(tg)] : tg \in {<<>>, DirtyTags}}
    \cup {[NoBody EXCEPT !.isArchived = Some(a)] : a \in BOOLEAN}
    \cup {[NoBody EXCEPT !.extra = TRUE]}
    \cup {[NoBody EXCEPT !.author = Some(au)] :
            au \in {IdString(1), IdString(2), "garbage"}}

Rejection(route, auth) ==
    NoteReply(route, auth.status, auth.error, auth.message, <<>>)

SchemaRejection(route, message) ==
    NoteReply(route, 400, "Validation Error", message, <<>>)

NoteFrame == UNCHANGED <<inflight, proc, env, now, ticks, hin, hout, accounts, nextUid, issued, vres, g>>

\* POST /notes: route schema, then the guard, then the handler
PostNoteWith(headers, bodies, bound) ==
    \E header \in headers :
      LET auth == authMiddleware(header, FALSE)
      IN  \E body \in bodies :
            LET out == CreateNote(auth.user, body, notes, nextNid + 1)
            IN  /\ nextNid < bound
                /\ req' = [header |-> header, id |-> ""]
                /\ IF CreateSchemaError(body) # ""
                   THEN /\ resp' = SchemaRejection("POST /notes", CreateSchemaError(body))
                        /\ UNCHANGED <<notes, nextNid>>
                   ELSE IF ~auth.ok
                   THEN /\ resp' = Rejection("POST /notes", auth)
                        /\ UNCHANGED <<notes, nextNid>>
                   ELSE /\ resp' = out.reply
                        /\ notes' = out.notes
                        /\ nextNid' = IF out.notes = notes THEN nextNid ELSE nextNid + 1
                /\ NoteFrame

PostNote == PostNoteWith(CallerHeaders, CreateBodies, MaxNotes)

\* GET /notes/:id
GetNoteById ==
    \E header \in CallerHeaders :
      LET auth == authMiddleware(header, FALSE)
      IN  \E id \in NoteIds :
            LET out == GetNote(auth.user, id, notes)
            IN  /\ req' = [header |-> header, id |-> id]
                /\ resp' = IF ~auth.ok THEN Rejection("GET /notes/:id", auth)
                           ELSE out.reply
                /\ notes' = IF ~auth.ok THEN notes ELSE out.notes
                /\ UNCHANGED nextNid
                /\ NoteFrame

\* PUT /notes/:id
PutNoteWith(headers, ids, bodies) ==
    \E header \in headers :
      LET auth == authMiddleware(header, FALSE)
      IN  \E id \in ids, body \in bodies :
            LET out == UpdateNote(auth.user, id, body, notes)
            IN  /\ req' = [header |-> header, id |-> id]
                /\ IF UpdateSchemaError(body) # ""
                   THEN /\ resp' = SchemaRejection("PUT /notes/:id",
                                                   UpdateSchemaError(body))
                        /\ UNCHANGED notes
                   ELSE IF ~auth.ok
                   THEN /\ resp' = Rejection("PUT /notes/:id", auth)
                        /\ UNCHANGED notes
                   ELSE /\ resp' = out.reply
                        /\ notes' = out.notes
                /\ UNCHANGED nextNid
                /\ NoteFrame

PutNote == PutNoteWith(CallerHeaders, NoteIds, UpdateBodies)

\* DELETE /notes/:id
DeleteNoteById ==
    \E header \in CallerHeaders :
      LET auth == authMiddleware(header, FALSE)
      IN  \E id \in NoteIds :
            LET out == DeleteNote(auth.user, id, notes)
            IN  /\ req' = [header |-> header, id |-> id]
                /\ resp' = IF ~auth.ok THEN Rejection("DELETE /notes/:id", auth)
                           ELSE out.reply
                /\ notes' = IF ~auth.ok THEN notes ELSE out.notes
                /\ UNCHANGED nextNid
                /\ NoteFrame

Init ==
    /\ env = TestEnv
    /\ IdleClock
    /\ IdleExtract
    /\ accounts = TestUsers
    /\ nextUid = 2
    /\ issued = {generateToken(u) : u \in TestUsers}
    /\ vres = NoVres
    /\ IdleNotes
    /\ IdleRequests
    /\ IdleProcess
    /\ resp = NoResp

Next ==
    \/ PostNote
    \/ GetNoteById
    \/ PutNote
    \/ DeleteNoteById

Spec == Init /\ [][Next]_vars

-----------------------------------------------------------------------------
(* The list route: notes of two accounts are created and archived, and    *)
(* the clients list with a range of queries.                               *)

ListHeaders == {Absent} \cup {Bearer(t) : t \in issued}

ListBodies ==
    { GoodBody,
      [NoBody EXCEPT !.title = Some("b"), !.content = Some("a"),
                     !.tags = Some(<<Str(<<"x">>), Str(<<" ", "y", " ">>)>>)] }

ListIds == {NoteIdString(n) : n \in 1..MaxListed}

NoQuery ==
    [page |-> NoNum, limit |-> NoNum, search |-> NoStr, tags |-> NoTags,
     archived |-> NoBool]

ListQueries ==
    { NoQuery,
      [NoQuery EXCEPT !.limit = Some(1)],
      [NoQuery EXCEPT !.page = Some(2), !.limit = Some(1)],
      [NoQuery EXCEPT !.page = Some(3), !.limit = Some(1)],
      [NoQuery EXCEPT !.limit = Some(2)],
      [NoQuery EXCEPT !.page = Some(0)],
      [NoQuery EXCEPT !.limit = Some(MaxLimit + 1)],
      [NoQuery EXCEPT !.search = Some("a")],
      [NoQuery EXCEPT !.tags = Some(Str(<<"x">>))],
      [NoQuery EXCEPT !.tags = Some(Str(<<" ", ",", " ">>))],
      [NoQuery EXCEPT !.tags = Some(Str(<<>>)), !.archived = Some(FALSE)],
      [NoQuery EXCEPT !.tags = Some(Str(<<"z", ",", " ", "y">>))],
      [NoQuery EXCEPT !.archived = Some(TRUE)],
      [NoQuery EXCEPT !.archived = Some(FALSE)],
      [NoQuery EXCEPT !.tags = Some(Str(<<"x">>)), !.archived = Some(FALSE),
                      !.search = Some("a")] }

\* GET /notes: route schema, then the guard, then the handler
GetNotesWith(headers, queries) ==
    \E header \in headers :
      LET auth == authMiddleware(header, FALSE)
      IN  \E q \in queries :
            /\ req' = [header |-> header, id |-> "", query |-> q]
            /\ IF QuerySchemaError(q) # ""
               THEN resp' = SchemaRejection("GET /notes", QuerySchemaError(q))
               ELSE IF ~auth.ok
               THEN resp' = Rejection("GET /notes", auth)
               ELSE \E sorted \in Orderings(Matching(auth.user, q, notes)) :
                       resp' = ListNotes(auth.user, q, notes, sorted)
            /\ UNCHANGED <<notes, nextNid>>
            /\ NoteFrame

GetNotes == GetNotesWith(ListHeaders, ListQueries)

PostListed == PostNoteWith(ListHeaders, ListBodies, MaxListed)

ArchiveNote ==
    PutNoteWith(ListHeaders, ListIds, {[NoBody EXCEPT !.isArchived = Some(TRUE)]})

NextList ==
    \/ PostListed
    \/ ArchiveNote
    \/ GetNotes

SpecList == Init /\ [][NextList]_vars

-----------------------------------------------------------------------------
(* Creating and listing only: one account creates notes, some of them      *)
(* with isArchived = true in the body, while the clock advances or not     *)
(* between two creates, and lists them.  Nothing is updated, so a stored   *)
(* note with the title "z" is one created with isArchived = true.          *)

ArchivedBody ==
    [NoBody EXCEPT !.title = Some("z"), !.content = Some("c"),
                   !.isArchived = Some(TRUE)]

FirstUser == {Bearer(t) : t \in {u \in issued : Claims(u).id = IdString(1)}}

OrderQueries ==
    { NoQuery,
      [NoQuery EXCEPT !.limit = Some(1)],
      [NoQuery EXCEPT !.archived = Some(TRUE)] }

PostCreated == PostNoteWith(FirstUser, {GoodBody, ArchivedBody}, MaxListed)

GetCreated == GetNotesWith(FirstUser, OrderQueries)

NextOrder ==
    \/ PostCreated
    \/ GetCreated
    \/ Tick(1)

SpecOrder == Init /\ [][NextOrder]_vars

-----------------------------------------------------------------------------
(* One request through an authentication guard, step by step.  The lookup  *)
(* is awaited, so the clock and the User collection may change between     *)
(* the steps.  g.trace lists what the request has done so far.             *)

\* Authorization values by kind: no header, an empty one, another scheme,
\* the scheme with no token, a token that is not a JWT, a minted token and
\* what can be made of one
GuardInputs ==
    { [kind |-> "absent", header |-> Absent],
      [kind |-> "empty", header |-> Header(<<>>)],
      [kind |-> "other-scheme", header |-> Header(Str(<<"B", "a", "s", "i", "c", " ", "t">>))],
      [kind |-> "no-token", header |-> Header(BearerPrefix \o Str(<<" ">>))],
      [kind |-> "garbage", header |-> Bearer(Str(<<"t">>))] }
    \cup {[kind |-> v.kind, header |-> Bearer(v.tok)] :
            v \in UNION {Variants(t) : t \in {u \in issued : Claims(u).id = IdString(1)}}}
    \cup {[kind |-> "minted", header |-> Bearer(t)] : t \in issued}

GuardedRoutes == {"POST /notes", "GET /auth/profile"}

GuardFrame == UNCHANGED <<inflight, proc, env, now, ticks, hin, hout, accounts, nextUid, issued, vres,
                          resp, req>>

\* a request reaches the guard of its route
Arrive(guard, route, in) ==
    /\ g.pc \in {"none", "done", "rejected"}
    /\ in \in GuardInputs
    /\ \/ guard = "mandatory" /\ route = "GET /auth/profile"
       \/ guard = "mandatory" /\ route = "POST /notes" /\ nextNid < MaxNotes
       \/ guard = "optional" /\ route = "downstream"
    /\ g' = [NoGuard EXCEPT !.pc = "extract", !.guard = guard, !.route = route,
                            !.kind = in.kind, !.header = in.header]
    /\ UNCHANGED <<notes, nextNid>>
    /\ GuardFrame

Step(name) == Append(g.trace, name)

\* variant: the guard answers 403
Reject_Forbidden(message) ==
    g' = [g EXCEPT !.pc = "rejected", !.trace = Step("reject"),
                   !.reply = Reply(g.route, 403, "Forbidden", message)]

\* authMiddleware, catch block and the 401 for an unknown user
Reject(message) ==
    g' = [g EXCEPT !.pc = "rejected", !.trace = Step("reject"),
                   !.reply = Reply(g.route, 401, "Unauthorized", message)]

\* authMiddleware: JWTUtil.extractTokenFromHeader(authHeader)
AuthExtract ==
    /\ g.guard = "mandatory" /\ g.pc = "extract"
    /\ LET ex == extractTokenFromHeader(g.header)
       IN  IF ex.ok
           THEN g' = [g EXCEPT !.pc = "verify", !.token = ex.token,
                               !.trace = Step("extract")]
           ELSE Reject(ex.error)
    /\ UNCHANGED <<notes, nextNid>>
    /\ GuardFrame

\* authMiddleware: JWTUtil.verifyToken(token)
AuthVerify ==
    /\ g.guard = "mandatory" /\ g.pc = "verify"
    /\ LET v == verifyToken(g.token)
       IN  IF v.ok
           THEN g' = [g EXCEPT !.pc = "lookup", !.payload = v.payload,
                               !.trace = Step("verify")]
           ELSE Reject(v.error)
    /\ UNCHANGED <<notes, nextNid>>
    /\ GuardFrame

\* variant: the 401 for an unknown user does not end the guard
AuthLookup_NoReturn(fault) ==
    /\ g.guard = "mandatory" /\ g.pc = "lookup"
    /\ IF FindByIdError(g.payload.id, fault) # ""
       THEN Reject(FindByIdError(g.payload.id, fault))
       ELSE IF FindUserById(ObjectId(g.payload.id)) = {}
       THEN g' = [g EXCEPT !.pc = "handler", !.user = g.payload,
                           !.trace = Step("reject") \o <<"attach">>,
                           !.reply = Reply(g.route, 401, "Unauthorized", "User not found")]
       ELSE g' = [g EXCEPT !.pc = "handler", !.user = g.payload,
                           !.trace = Step("lookup") \o <<"attach">>]
    /\ UNCHANGED <<notes, nextNid>>
    /\ GuardFrame

\* authMiddleware: await User.findById(payload.id), then request.user = payload
AuthLookup(fault) ==
    /\ g.guard = "mandatory" /\ g.pc = "lookup"
    /\ IF FindByIdError(g.payload.id, fault) # ""
       THEN Reject(FindByIdError(g.payload.id, fault))
       ELSE IF FindUserById(ObjectId(g.payload.id)) = {}
       THEN Reject("User not found")
       ELSE g' = [g EXCEPT !.pc = "handler", !.user = g.payload,
                           !.trace = Step("lookup") \o <<"attach">>]
    /\ UNCHANGED <<notes, nextNid>>
    /\ GuardFrame

\* GET /auth/profile handler
Profile(caller) ==
    IF FindUserById(ObjectId(caller.id)) = {}
    THEN Reply("GET /auth/profile", 404, "Not Found", "User not found")
    ELSE Reply("GET /auth/profile", 200, "", "")

\* the route handler behind the mandatory guard
Handler ==
    /\ g.guard = "mandatory" /\ g.pc = "handler"
    /\ LET out == CreateNote(g.user, GoodBody, notes, nextNid + 1)
       IN  IF g.route = "POST /notes"
           THEN /\ g' = [g EXCEPT !.pc = "done", !.trace = Step("handler"),
                                  !.reply = out.reply]
                /\ notes' = out.notes
                /\ nextNid' = nextNid + 1
           ELSE /\ g' = [g EXCEPT !.pc = "done", !.trace = Step("handler"),
                                  !.reply = Profile(g.user)]
                /\ UNCHANGED <<notes, nextNid>>
    /\ GuardFrame

\* optionalAuthMiddleware returns: the request goes on to what follows
Proceed == g' = [g EXCEPT !.pc = "handler"]

\* optionalAuthMiddleware: the header test and extractTokenFromHeader
OptionalExtract ==
    /\ g.guard = "optional" /\ g.pc = "extract"
    /\ LET ex == extractTokenFromHeader(g.header)
       IN  IF ~g.header.present \/ g.header.value = <<>> THEN Proceed
           ELSE IF ex.ok
           THEN g' = [g EXCEPT !.pc = "verify", !.token = ex.token,
                               !.trace = Step("extract")]
           ELSE Proceed
    /\ UNCHANGED <<notes, nextNid>>
    /\ GuardFrame

\* optionalAuthMiddleware: JWTUtil.verifyToken(token)
OptionalVerify ==
    /\ g.guard = "optional" /\ g.pc = "verify"
    /\ LET v == verifyToken(g.token)
       IN  IF v.ok
           THEN g' = [g EXCEPT !.pc = "lookup", !.payload = v.payload,
                               !.trace = Step("verify")]
           ELSE Proceed
    /\ UNCHANGED <<notes, nextNid>>
    /\ GuardFrame

\* variant: the payload is attached whether or not the account was found
OptionalLookup_Always(fault) ==
    /\ g.guard = "optional" /\ g.pc = "lookup"
    /\ IF FindByIdError(g.payload.id, fault) # ""
       THEN Proceed
       ELSE g' = [g EXCEPT !.pc = "handler", !.user = g.payload,
                           !.trace = Step("lookup") \o <<"attach">>]
    /\ UNCHANGED <<notes, nextNid>>
    /\ GuardFrame

\* optionalAuthMiddleware: await User.findById(payload.id); if (user) attach
OptionalLookup(fault) ==
    /\ g.guard = "optional" /\ g.pc = "lookup"
    /\ IF FindByIdError(g.payload.id, fault) # ""
       THEN Proceed
       ELSE IF FindUserById(ObjectId(g.payload.id)) = {}
       THEN g' = [g EXCEPT !.pc = "handler", !.trace = Step("lookup")]
       ELSE g' = [g EXCEPT !.pc = "handler", !.user = g.payload,
                           !.trace = Step("lookup") \o <<"attach">>]
    /\ UNCHANGED <<notes, nextNid>>
    /\ GuardFrame

\* what follows the optional guard runs with or without an identity
Downstream ==
    /\ g.guard = "optional" /\ g.pc = "handler"
    /\ g' = [g EXCEPT !.pc = "done", !.trace = Step("handler"),
                      !.reply = Reply(g.route, 200, "", "")]
    /\ UNCHANGED <<notes, nextNid>>
    /\ GuardFrame

NextGuard ==
    \/ \E in \in GuardInputs, route \in GuardedRoutes : Arrive("mandatory", route, in)
    \/ \E in \in GuardInputs : Arrive("optional", "downstream", in)
    \/ AuthExtract
    \/ AuthVerify
    \/ \E fault \in BOOLEAN : AuthLookup(fault)
    \/ Handler
    \/ OptionalExtract
    \/ OptionalVerify
    \/ \E fault \in BOOLEAN : OptionalLookup(fault)
    \/ Downstream
    \/ \E d \in {1, Timespan(EXPIRE) - 1} : Tick(d)
    \/ \E u \in accounts : RemoveAccount(u)

SpecGuard == Init /\ [][NextGuard]_vars

-----------------------------------------------------------------------------
(* Specification of extractTokenFromHeader over every header value *)

InitExtract ==
    /\ env = TestEnv
    /\ IdleClock
    /\ IdleAccounts
    /\ IdleTokens
    /\ IdleNotes
    /\ IdleRequests
    /\ IdleProcess
    /\ hin \in HeaderInputs
    /\ hout = NotCalled
    /\ resp = NoResp

Extract ==
    /\ ~hout.called
    /\ hout' = [called |-> TRUE, res |-> extractTokenFromHeader(hin)]
    /\ UNCHANGED <<inflight, proc, env, now, ticks, hin, accounts, nextUid, issued, vres, notes, nextNid, resp, req, g>>

NextHeader ==
    /\ hout.called
    /\ hin' \in HeaderInputs
    /\ hout' = NotCalled
    /\ UNCHANGED <<inflight, proc, env, now, ticks, accounts, nextUid, issued, vres, notes, nextNid, resp, req, g>>

NextExtract == Extract \/ NextHeader

SpecExtract == InitExtract /\ [][NextExtract]_vars

\* t is r without its leading and trailing whitespace
IsTrimOf(t, r) ==
    \E i, j \in 0..Len(r) :
        /\ i + j <= Len(r)
        /\ \A k \in 1..i : r[k].c \in Whitespace
        /\ \A k \in (Len(r) - j + 1)..Len(r) : r[k].c \in Whitespace
        /\ t = [k \in 1..(Len(r) - i - j) |-> r[i + k]]
        /\ t = <<>> \/ (t[1].c \notin Whitespace /\ t[Len(t)].c \notin Whitespace)

HasBearer(v) == Len(v) >= 7 /\ \A k \in 1..7 : v[k] = BearerPrefix[k]

Rest(v) == [k \in 1..(Len(v) - 7) |-> v[7 + k]]

ExtractCases(missing) ==
    hout.called =>
        LET v == hin.value
            r == hout.res
        IN  IF missing
            THEN ~r.ok /\ r.error = "Authorization header is missing"
            ELSE IF ~HasBearer(v)
            THEN ~r.ok /\ r.error = "Invalid authorization header format"
            ELSE IF IsTrimOf(<<>>, Rest(v))
            THEN ~r.ok /\ r.error = "Token is missing"
            ELSE r.ok /\ r.token # <<>> /\ IsTrimOf(r.token, Rest(v))

\* C8 (as stated): the first case applies exactly when the header is absent;
\* every present value that does not start with "Bearer " is a format error.
C8_AsStated == ExtractCases(~hin.present)

\* C8 (amended): extractTokenFromHeader fails with "Authorization header is
\* missing" when the header is absent or is the empty string, with "Invalid
\* authorization header format" when a non-empty value does not start with
\* "Bearer ", with "Token is missing" when the remainder is empty once
\* trimmed, and otherwise returns the remainder with surrounding whitespace
\* trimmed.
C8_ExtractCases == ExtractCases(~hin.present \/ hin.value = <<>>)

\* a header with extra whitespace around the token was extracted
C8_Witness ==
    /\ hout.called
    /\ hout.res.ok
    /\ Len(hin.value) > 7 + Len(hout.res.token)
    /\ IsSpace(hin.value[8])

-----------------------------------------------------------------------------
(* Claims about verifyToken and the token lifetime, under SpecToken *)

Minted(v) == v.kind \in {"minted", "wrong-issuer", "past-expiry", "wrong-issuer-past-expiry"}

PastExpiry(v) == v.at >= Claims(v.token).exp

\* the reason a presented token cannot be trusted, in the three kinds the
\* specification names; "" when it can be, "several" when two reasons apply
Cause(v) ==
    CASE v.kind \in {"wrong-secret", "tampered-payload", "truncated", "garbage"}
            -> "InvalidSignatureOrMalformed"
      [] v.kind \in {"minted", "past-expiry"}
            -> IF PastExpiry(v) THEN "Expired" ELSE ""
      [] v.kind \in {"wrong-issuer", "wrong-issuer-past-expiry"}
            -> IF PastExpiry(v) THEN "several" ELSE "WrongIssuer"

\* C9 (as stated): the three reasons surface as three distinct error kinds,
\* so two consecutive failures with different reasons carry different errors.
C9_AsStated ==
    [][ ( /\ vres.called /\ vres'.called
          /\ Cause(vres) \notin {"", "several"}
          /\ Cause(vres') \notin {"", "several"}
          /\ Cause(vres) # Cause(vres') )
        => vres.res.error # vres'.res.error ]_vars

\* C9 (amended): verifyToken fails for every token that cannot be trusted,
\* with exactly one of two errors: "Token has expired" for a correctly
\* signed token past its expiry, "Invalid token" for a damaged token, a bad
\* signature or a wrong issuer (the wrong issuer is not told apart from a bad
\* signature); a correctly signed, unexpired token whose issuer is not
\* "notes-api" is always rejected, and only a trustworthy token is accepted.
C9_VerifyErrors ==
    vres.called =>
        /\ vres.res.ok <=> Cause(vres) = ""
        /\ vres.res.ok => vres.res.payload = Claims(vres.token)
        /\ ~vres.res.ok => vres.res.error \in {"Token has expired", "Invalid token"}
        /\ Cause(vres) = "InvalidSignatureOrMalformed" => vres.res.error = "Invalid token"
        /\ Cause(vres) = "WrongIssuer" => vres.res.error = "Invalid token"
        /\ Cause(vres) \in {"Expired", "several"} => vres.res.error = "Token has expired"

\* a correctly signed, unexpired token of another issuer was rejected
C9_Witness ==
    /\ vres.called
    /\ vres.kind = "wrong-issuer"
    /\ ~PastExpiry(vres)
    /\ vres.res.error = "Invalid token"

\* the configured duration in seconds: 24 hours when JWT_EXPIRE is unset
ConfiguredSeconds == IF env.JWT_EXPIRE = Unset THEN 86400 + 0 ELSE 3600 + 0

\* C10: a token minted at t expires at t + D; at every instant before that,
\* whatever requests were served meanwhile, verifyToken accepts it; from the
\* instant of its expiry on it fails with "Token has expired"; a token
\* minted with a past expiry fails with that error at once.
C10_Lifetime ==
    /\ \A t \in issued :
          /\ Claims(t).exp = Claims(t).iat + ConfiguredSeconds
          /\ now < Claims(t).exp => verifyToken(t).ok
          /\ now >= Claims(t).exp => verifyToken(t) = VerifyFail("Token has expired")
    /\ (vres.called /\ vres.kind = "minted") =>
          /\ vres.at < Claims(vres.token).exp => vres.res.ok
          /\ vres.at >= Claims(vres.token).exp => vres.res = VerifyFail("Token has expired")
    /\ (vres.called /\ vres.kind = "past-expiry") =>
          vres.res = VerifyFail("Token has expired")

\* a minted token was rejected as expired once its expiry was reached, while
\* a token minted later is still accepted
C10_Witness ==
    /\ vres.called
    /\ vres.kind = "minted"
    /\ vres.token \in issued
    /\ vres.at >= Claims(vres.token).exp
    /\ vres.res.error = "Token has expired"
    /\ \E t \in issued : now < Claims(t).exp /\ Claims(t).iat > 0

-----------------------------------------------------------------------------
(* Owner isolation on the single-note routes (specification Spec)          *)

ItemRoutes == {"GET /notes/:id", "PUT /notes/:id", "DELETE /notes/:id"}

Identity(header) == authMiddleware(header, FALSE)

OwnedBy(n, header) ==
    /\ Identity(header).ok
    /\ ObjectId(Identity(header).user.id) = n.author

\* the step is a single-note request on the id of n, authenticated as an
\* account that does not own n
ByOther(n) ==
    /\ resp'.route \in ItemRoutes
    /\ req'.id = NoteIdString(n._id)
    /\ Identity(req'.header).ok
    /\ ~OwnedBy(n, req'.header)

RetrievableByOwner(n, collection) ==
    \E t \in issued :
        /\ ObjectId(Claims(t).id) = n.author
        /\ GetNote(Claims(t), NoteIdString(n._id), collection).reply.status = 200

\* C1 as stated: a GET, PUT or DELETE on the id of a note,
\* authenticated as an account other than its owner, is answered 404, and the
\* note is still stored afterwards with every field unchanged.
C1_AsStated ==
    [][\A n \in notes : ByOther(n) => resp'.status = 404 /\ n \in notes']_vars

\* an update body the PUT handler lets through to the store query
Accepted(body) ==
    /\ ~NoKeys(body)
    /\ body.author.has => IsObjectIdString(body.author.v)
    /\ RequiredError(body.title, body.content) = ""

C1_Handler ==
    \A n \in notes, t \in issued, body \in UpdateBodies :
        (ObjectId(Claims(t).id) # n.author /\ UpdateSchemaError(body) = "") =>
            LET out == UpdateNote(Claims(t), NoteIdString(n._id), body, notes)
            IN  /\ out.notes = notes
                /\ out.reply.status \in {400, 404, 500}
                /\ out.reply.status = 404 <=> Accepted(body)

C1_Step ==
    \A n \in notes : ByOther(n) =>
        /\ n \in notes'
        /\ RetrievableByOwner(n, notes')
        /\ resp'.route # "PUT /notes/:id" => resp' = NotFound(resp'.route)
        /\ resp'.route = "PUT /notes/:id" =>
              \/ resp' = NotFound("PUT /notes/:id")
              \/ resp'.status = 400 /\ resp'.error = "Bad Request"
                                    /\ resp'.message = "No updates provided"
              \/ resp'.status = 400 /\ resp'.error = "Validation Error"
              \/ resp'.status = 500 /\ resp'.message = "Failed to update note"

\* C1, corrected: a GET or DELETE on the id of a note by an account other than
\* its owner is answered 404; a PUT is answered 404 exactly when its body has
\* at least one key and passes the schema, the casts and the validators, and
\* 400 or 500 otherwise; in every case the note is still stored afterwards
\* with every field unchanged and its owner can retrieve it.
C1_OtherOwner == []C1_Handler /\ [][C1_Step]_vars

\* an account other than the owner has been answered 404 on a PUT with a body
\* the handler accepts
C1_Witness ==
    \E n \in notes :
        /\ req.id = NoteIdString(n._id)
        /\ Identity(req.header).ok
        /\ ~OwnedBy(n, req.header)
        /\ resp = NotFound("PUT /notes/:id")

\* C3: for GET, PUT and DELETE of a note id, the reply to a caller who does
\* not own the note is the reply the same request gets when no note with that
\* id is stored.
C3_Indistinguishable ==
    \A n \in notes, t \in issued :
        ObjectId(Claims(t).id) # n.author =>
            LET id     == NoteIdString(n._id)
                caller == Claims(t)
                absent == notes \ {n}
            IN  /\ GetNote(caller, id, notes).reply = GetNote(caller, id, absent).reply
                /\ DeleteNote(caller, id, notes).reply
                     = DeleteNote(caller, id, absent).reply
                /\ \A body \in UpdateBodies :
                     UpdateNote(caller, id, body, notes).reply
                       = UpdateNote(caller, id, body, absent).reply

\* a caller has been answered "Note not found" on a DELETE of a stored note
\* of another owner
C3_Witness ==
    \E n \in notes :
        /\ req.id = NoteIdString(n._id)
        /\ Identity(req.header).ok
        /\ ~OwnedBy(n, req.header)
        /\ resp = NotFound("DELETE /notes/:id")

\* C4: across every create and update request a stored note keeps the owner
\* it was created with, and a created note is owned by the identity that
\* authenticated the create request, whatever the request body carries.
C4_OwnerImmutable ==
    [][/\ \A n \in notes : \A m \in notes' : m._id = n._id => m.author = n.author
       /\ \A m \in notes' :
            (\A n \in notes : n._id # m._id) => OwnedBy(m, req'.header)]_vars

-----------------------------------------------------------------------------
(* Owner scoping of the list route (specification SpecList)                *)

\* C2: every note in a reply of GET /notes is a stored note owned by the
\* identity that authenticated the request, and the reported total does not
\* exceed the number of notes that identity owns, whatever page, limit,
\* search, tags and archived the query carries.
C2_OnlyOwn ==
    (resp.route = "GET /notes" /\ resp.status = 200) =>
        /\ \A i \in DOMAIN resp.data :
              \E n \in notes : NoteView(n) = resp.data[i] /\ OwnedBy(n, req.header)
        /\ resp.pagination.totalNotes
              <= Cardinality({n \in notes : OwnedBy(n, req.header)})

\* a list filtered by tag returned a note while another account stores a note
\* carrying the same tag
C2_Witness ==
    /\ resp.route = "GET /notes" /\ resp.status = 200
    /\ req.query.tags.has
    /\ resp.data # <<>>
    /\ \E n \in notes :
          /\ ~OwnedBy(n, req.header)
          /\ \E i \in DOMAIN n.tags, j \in DOMAIN TagArray(req.query.tags.v) :
                n.tags[i] = TagArray(req.query.tags.v)[j]

-----------------------------------------------------------------------------
(* The guards (specification SpecGuard)                                    *)

\* kinds of Authorization value that no guard accepts
FailureKinds ==
    {"absent", "empty", "other-scheme", "no-token", "garbage", "wrong-secret",
     "wrong-issuer", "past-expiry", "wrong-issuer-past-expiry", "tampered-payload",
     "truncated"}

InGuard == g.pc \in {"extract", "verify", "lookup"}

Has(trace, name) == \E i \in DOMAIN trace : trace[i] = name

FullGuard == <<"extract", "verify", "lookup", "attach">>

PassedGuard(trace) == Len(trace) >= 4 /\ SubSeq(trace, 1, 4) = FullGuard

\* the token being verified is past its expiry
Expired == WellFormed(g.token) /\ now >= Claims(g.token).exp

\* the account the payload names is not stored
AccountGone == FindUserById(ObjectId(g.payload.id)) = {}

C5_Uniform ==
    g.guard = "mandatory" =>
        /\ g.pc = "rejected" =>
              /\ g.reply.status = 401
              /\ g.reply.error = "Unauthorized"
              /\ g.reply.message # ""
              /\ ~Has(g.trace, "handler")
        /\ g.kind \in FailureKinds =>
              /\ g.pc \in {"extract", "verify", "lookup", "rejected"}
              /\ g.reply.status \in {0, 401}

C5_Step ==
    (g.guard = "mandatory" /\ g' # g) =>
        /\ (g.pc = "verify" /\ Expired) => g'.pc = "rejected"
        /\ (g.pc = "lookup" /\ AccountGone) => g'.pc = "rejected"
        /\ g'.pc = "rejected" => UNCHANGED <<accounts, nextUid, notes, nextNid>>
        /\ InGuard => UNCHANGED <<accounts, nextUid, notes, nextNid>>

\* C5: in the mandatory guard a header that is absent, of another scheme or
\* without a token, a token that is malformed, badly signed, of another
\* issuer or expired, and an account that is no longer stored each end the
\* request with 401 {error: 'Unauthorized', message}; the handler does not
\* run, and no step of a rejected request changes an account or a note.
C5_Rejects == []C5_Uniform /\ [][C5_Step]_vars

\* a request with a genuine token was rejected because its account is gone,
\* while a note is stored
C5_Witness ==
    /\ g.guard = "mandatory" /\ g.pc = "rejected" /\ g.kind = "minted"
    /\ g.reply = Reply(g.route, 401, "Unauthorized", "User not found")
    /\ notes # {}

C6_State ==
    g.guard = "mandatory" =>
        /\ g.user # NoClaims => PassedGuard(g.trace) /\ g.user = g.payload
        /\ Has(g.trace, "handler") => g.trace = FullGuard \o <<"handler">>
        /\ g.pc = "rejected" =>
              /\ g.user = NoClaims
              /\ g.trace \in { <<"reject">>, <<"extract", "reject">>,
                                <<"extract", "verify", "reject">> }

C6_Terminal ==
    (g.guard = "mandatory" /\ g' # g) =>
        /\ g.pc = "rejected" => g'.pc = "extract" /\ g'.trace = <<>> /\ g'.user = NoClaims
        /\ (g.user # NoClaims /\ g'.trace # <<>>) => g'.user = g.user

\* C6: in the mandatory guard the identity is attached only after the
\* extraction, then the verification, then the account lookup have succeeded,
\* in that order, and the handler runs only after that; a rejected request
\* has no identity, runs no handler and takes no further step.
C6_Order == []C6_State /\ [][C6_Terminal]_vars

\* a create request passed the guard and its handler stored a note for the
\* attached identity
C6_Witness ==
    /\ g.guard = "mandatory" /\ g.pc = "done" /\ g.route = "POST /notes"
    /\ g.trace = FullGuard \o <<"handler">>
    /\ \E n \in notes : n.author = ObjectId(g.user.id)

C7_State ==
    g.guard = "optional" =>
        /\ g.pc # "rejected" /\ ~Has(g.trace, "reject")
        /\ g.pc # "done" => g.reply = NoResp
        /\ g.pc = "done" => g.reply.status = 200
        /\ g.user # NoClaims =>
              /\ PassedGuard(g.trace)
              /\ g.user = g.payload
              /\ g.kind = "minted"
        /\ g.kind \in FailureKinds => g.user = NoClaims

C7_Step ==
    (g.guard = "optional" /\ InGuard /\ g' # g) =>
        /\ g'.pc \in {"verify", "lookup", "handler"}
        /\ (g.pc = "verify" /\ Expired) => g'.pc = "handler" /\ g'.user = NoClaims
        /\ (g.pc = "lookup" /\ AccountGone) => g'.pc = "handler" /\ g'.user = NoClaims
        /\ UNCHANGED <<accounts, nextUid, notes, nextNid>>

\* C7: the optional guard never rejects and never sends a response: on a
\* missing or malformed header, a bad or expired token, another issuer, a
\* missing account or a failed lookup the request goes on with no identity,
\* and an identity is attached only when extraction, verification and the
\* lookup have all succeeded.
C7_Optional == []C7_State /\ [][C7_Step]_vars

\* a request with a token of another issuer went through the optional guard
\* and was served without an identity
C7_Witness ==
    /\ g.guard = "optional" /\ g.pc = "done" /\ g.kind = "wrong-issuer"
    /\ g.user = NoClaims
    /\ g.reply.status = 200

-----------------------------------------------------------------------------
(* Round trip of a token (specification SpecToken)                         *)

SameIdentity(payload, u) ==
    /\ payload.id = IdString(u._id)
    /\ ObjectId(payload.id) = u._id
    /\ payload.email = u.email
    /\ payload.name = u.name

\* C11: for every stored account, verifying a token just generated for it
\* succeeds with a payload whose id, email and name are the account's id (as
\* a string), email and name; every token a registration or a login handed
\* out names a stored account in the same way, and verifying it before its
\* expiry returns its claims.
C11_RoundTrip ==
    /\ \A u \in accounts :
          /\ verifyToken(generateToken(u)).ok
          /\ SameIdentity(verifyToken(generateToken(u)).payload, u)
    /\ \A t \in issued :
          /\ \E u \in accounts : SameIdentity(Claims(t), u)
          /\ now < Claims(t).exp =>
                /\ verifyToken(t).ok
                /\ \E u \in accounts : SameIdentity(verifyToken(t).payload, u)
    /\ (vres.called /\ vres.kind = "minted" /\ vres.at < Claims(vres.token).exp) =>
          /\ vres.res.ok
          /\ \E u \in accounts : SameIdentity(vres.res.payload, u)

\* the token of a registration answered 201 was verified inside its window and
\* the payload names the stored account
C11_Witness ==
    /\ resp.route = "POST /auth/register" /\ resp.status = 201
    /\ vres.called /\ vres.kind = "minted" /\ vres.res.ok
    /\ vres.token \in issued
    /\ \E u \in accounts : SameIdentity(vres.res.payload, u)

-----------------------------------------------------------------------------
(* What a rejection tells the caller (specification SpecGuard)             *)

\* Authorization values of the form 'Bearer <three-segment token>'
BearerInputs ==
    {in \in GuardInputs :
        in.kind \in {"minted", "wrong-secret", "wrong-issuer", "past-expiry",
                     "wrong-issuer-past-expiry", "tampered-payload"}}

BearerKinds == {in.kind : in \in BearerInputs}

\* C12: a request with a well-formed bearer token that the mandatory guard
\* rejects, whether for a bad signature, another issuer, an expired token or
\* an account that is no longer stored, gets the 401 body that any other
\* rejected request of that form gets at that moment.
C12_SameBody ==
    (g.guard = "mandatory" /\ g.pc = "rejected" /\ g.kind \in BearerKinds) =>
        \A b \in BearerInputs :
            LET rb == authMiddleware(b.header, FALSE)
            IN  ~rb.ok => g.reply = Reply(g.route, rb.status, rb.error, rb.message)

-----------------------------------------------------------------------------
(* Pagination of the list route (specification SpecList)                   *)

Listed == resp.route = "GET /notes" /\ resp.status = 200

ReqPage == IF req.query.page.has THEN req.query.page.v ELSE DefaultPage

ReqLimit == IF req.query.limit.has THEN req.query.limit.v ELSE DefaultLimit

\* the caller's notes the query of the listed request selects
Selected == Matching(Identity(req.header).user, req.query, notes)

\* the least k with k * d >= n
Ceil(n, d) == CHOOSE k \in 0..n : k * d >= n /\ \A j \in 0..n : j * d >= n => j >= k

Min(a, b) == IF a < b THEN a ELSE b

\* C13: a list reply to a request with page >= 1 and limit in 1..100, with N
\* notes matching, reports totalNotes = N, totalPages = ceil(N / limit),
\* hasNext = (page < totalPages), hasPrev = (page > 1), and holds the notes
\* after the first (page - 1) * limit, at most limit of them.
C13_Pagination ==
    Listed =>
        LET N    == Cardinality(Selected)
            skip == (ReqPage - 1) * ReqLimit
            p    == resp.pagination
        IN  /\ ReqPage >= 1 /\ ReqLimit >= 1 /\ ReqLimit <= 100
            /\ p.currentPage = ReqPage
            /\ p.totalNotes = N
            /\ p.totalPages = Ceil(N, ReqLimit)
            /\ p.hasNext = (ReqPage < p.totalPages)
            /\ p.hasPrev = (ReqPage > 1)
            /\ Len(resp.data) <= ReqLimit
            /\ Len(resp.data) = IF skip >= N THEN 0 ELSE Min(ReqLimit, N - skip)

\* the second page of two matching notes, one note a page
C13_Witness ==
    /\ Listed
    /\ ReqPage = 2 /\ ReqLimit = 1
    /\ resp.pagination.totalNotes = 2
    /\ resp.pagination.totalPages = 2
    /\ Len(resp.data) = 1
    /\ resp.pagination.hasPrev /\ ~resp.pagination.hasNext

\* C14 as stated: a list reply with no matching note has totalPages = 0 and
\* both hasNext and hasPrev false, for every accepted page and limit.
C14_AsStated ==
    (Listed /\ Selected = {}) =>
        /\ resp.pagination.totalPages = 0
        /\ ~resp.pagination.hasNext
        /\ ~resp.pagination.hasPrev

\* C14, corrected: a list reply with no matching note has totalPages = 0,
\* no notes and hasNext false; hasPrev is false on page 1 and true on every
\* later page.
C14_Empty ==
    (Listed /\ Selected = {}) =>
        /\ resp.pagination.totalNotes = 0
        /\ resp.pagination.totalPages = 0
        /\ resp.data = <<>>
        /\ ~resp.pagination.hasNext
        /\ resp.pagination.hasPrev = (ReqPage > 1)

\* page 2 was listed while nothing matched
C14_Witness ==
    /\ Listed /\ Selected = {}
    /\ ReqPage = 2
    /\ resp.pagination.hasPrev

-----------------------------------------------------------------------------
(* Filters of the list route (specification SpecList)                      *)

ListCaller == Identity(req.header).user

Seen == {resp.data[i] : i \in DOMAIN resp.data}

Views(S) == {NoteView(n) : n \in S}

\* the whole selection fits in the page that was asked for
OnePage == ReqPage = 1 /\ Cardinality(Selected) <= ReqLimit

TagSet(n) == {n.tags[i] : i \in DOMAIN n.tags}

\* the tags parameter cut at the commas, each part without the whitespace
\* around it, the empty parts left out
CleanTags ==
    LET s      == req.query.tags.v
        commas == {i \in DOMAIN s : s[i] = Comma}
        starts == {1} \cup {i + 1 : i \in commas}
        End(a) == IF \E c \in commas : c >= a
                  THEN (CHOOSE c \in commas : c >= a /\ \A d \in commas : d >= a => c <= d) - 1
                  ELSE Len(s)
    IN  {Trim(SubSeq(s, a, End(a))) : a \in starts} \ {<<>>}

\* the caller's notes that pass every condition of the query but the tags
SelectedButTags == Matching(ListCaller, [req.query EXCEPT !.tags = NoTags], notes)

\* the caller's notes that pass every condition of the query but archived
SelectedButArchived == Matching(ListCaller, [req.query EXCEPT !.archived = NoBool], notes)

\* C15: when the tags parameter cleans to a non-empty set T, the notes the
\* list selects are the caller's notes passing the other filters whose tag
\* set intersects T; a note need not carry every tag of T.
C15_AnyOf ==
    (Listed /\ req.query.tags.has /\ CleanTags # {}) =>
        /\ Selected = {n \in SelectedButTags : TagSet(n) \cap CleanTags # {}}
        /\ Seen \subseteq Views({n \in notes : TagSet(n) \cap CleanTags # {}})
        /\ OnePage => Seen = Views({n \in SelectedButTags :
                                        TagSet(n) \cap CleanTags # {}})

\* a note carrying one of the two tags asked for, and not the other, is listed
C15_Witness ==
    /\ Listed /\ req.query.tags.has
    /\ Cardinality(CleanTags) = 2
    /\ \E n \in Selected :
          /\ NoteView(n) \in Seen
          /\ TagSet(n) \cap CleanTags # {}
          /\ ~(CleanTags \subseteq TagSet(n))

\* C16: when the tags parameter is present and nothing is left of it after
\* splitting on commas, trimming and dropping the empty parts, the list
\* selects and returns what the same request without the parameter does.
C16_EmptyTags ==
    (Listed /\ req.query.tags.has /\ CleanTags = {}) =>
        /\ Selected = SelectedButTags
        /\ \E sorted \in Orderings(SelectedButTags) :
              resp = ListNotes(ListCaller, [req.query EXCEPT !.tags = NoTags], notes,
                               sorted)

\* a list with a tags parameter of commas and spaces returned a note
C16_Witness ==
    /\ Listed /\ req.query.tags.has /\ req.query.tags.v # <<>>
    /\ CleanTags = {}
    /\ resp.data # <<>>

\* C17: with archived = b the list selects exactly the caller's notes that
\* pass the other filters and whose isArchived is b; without it both the
\* archived and the other notes that pass the other filters are selected.
C17_Archived ==
    Listed =>
        /\ req.query.archived.has =>
              /\ Selected = {n \in SelectedButArchived :
                               n.isArchived = req.query.archived.v}
              /\ \A v \in Seen : v.isArchived = req.query.archived.v
        /\ ~req.query.archived.has =>
              /\ Selected = SelectedButArchived
              /\ OnePage => Seen = Views(SelectedButArchived)
        /\ req.query = [NoQuery EXCEPT !.archived = req.query.archived] =>
              /\ OnePage => Seen = Views({n \in notes :
                    /\ OwnedBy(n, req.header)
                    /\ req.query.archived.has => n.isArchived = req.query.archived.v})

\* archived=true returned the caller's archived note and left out the
\* caller's other note
C17_Witness ==
    /\ Listed /\ req.query.archived = Some(TRUE)
    /\ Len(resp.data) = 1
    /\ \E n \in notes : OwnedBy(n, req.header) /\ ~n.isArchived

-----------------------------------------------------------------------------
(* Creating archived, and the order of a list (specification SpecOrder)    *)

\* C18: a note created with isArchived = true in the request is stored
\* archived, so GET /notes?archived=true by its creator returns exactly the
\* notes that account created that way.
C18_CreatedArchived ==
    (Listed /\ req.query = [NoQuery EXCEPT !.archived = Some(TRUE)]) =>
        Seen = Views({n \in notes : OwnedBy(n, req.header) /\ n.title = "z"})

\* C19: two identical list requests, one right after the other on the same
\* store, get the same notes in the same order, also when notes share their
\* creation time.
C19_SameOrder ==
    [][(Listed /\ Listed' /\ req' = req /\ notes' = notes) => resp' = resp]_vars

-----------------------------------------------------------------------------
(* Tag sanitization (specification Spec)                                   *)

RECURSIVE TrimmedNonEmpty(_)
TrimmedNonEmpty(tags) ==
    IF tags = <<>> THEN <<>>
    ELSE LET t == Trim(Head(tags))
         IN  (IF t = <<>> THEN <<>> ELSE <<t>>) \o TrimmedNonEmpty(Tail(tags))

CleanTag(t) == t # <<>> /\ ~IsSpace(t[1]) /\ ~IsSpace(t[Len(t)])

C20_Stored == \A n \in notes : \A i \in DOMAIN n.tags : CleanTag(n.tags[i])

C20_Create ==
    \A header \in CallerHeaders, body \in CreateBodies :
        (Identity(header).ok /\ CreateSchemaError(body) = "" /\ body.tags.has) =>
            LET out == CreateNote(Identity(header).user, body, notes, nextNid + 1)
            IN  out.reply.status = 201 =>
                  /\ out.notes # notes
                  /\ \A n \in out.notes \ notes :
                        n.tags = TrimmedNonEmpty(body.tags.v)

C20_Update ==
    \A header \in CallerHeaders, id \in NoteIds, body \in UpdateBodies :
        (Identity(header).ok /\ UpdateSchemaError(body) = "" /\ body.tags.has) =>
            LET out == UpdateNote(Identity(header).user, id, body, notes)
            IN  out.reply.status = 200 =>
                  \E n \in out.notes :
                      /\ NoteIdString(n._id) = id
                      /\ n.tags = TrimmedNonEmpty(body.tags.v)

\* C20: a create persists the request's tags in order, each trimmed and the
\* ones empty after trimming dropped (" x ", "", " \t", "y" is persisted as
\* "x", "y"); an update that supplies tags persists them the same way; no
\* stored tag is ever empty or has leading or trailing whitespace.
C20_Sanitized ==
    /\ TrimmedNonEmpty(DirtyTags) = <<Str(<<"x">>), Str(<<"y">>)>>
    /\ C20_Stored
    /\ C20_Create
    /\ C20_Update

\* an update that supplied the tags " x ", "", " \t", "y" was answered 200
\* and the note is stored with the tags "x", "y"
C20_Witness ==
    /\ resp.route = "PUT /notes/:id"
    /\ resp.status = 200
    /\ resp.data # <<>>
    /\ resp.data[1].tags = <<Str(<<"x">>), Str(<<"y">>)>>
    /\ \E n \in notes : NoteIdString(n._id) = req.id
                        /\ n.tags = <<Str(<<"x">>), Str(<<"y">>)>>

-----------------------------------------------------------------------------
(* Partial-merge update (specification Spec)                               *)

\* the note an update of the four recognised fields leaves behind
Merged(old, body) ==
    [_id        |-> old._id,
     author     |-> old.author,
     createdAt  |-> old.createdAt,
     title      |-> IF body.title.has THEN body.title.v ELSE old.title,
     content    |-> IF body.content.has THEN body.content.v ELSE old.content,
     tags       |-> IF body.tags.has THEN TrimmedNonEmpty(body.tags.v) ELSE old.tags,
     isArchived |-> IF body.isArchived.has THEN body.isArchived.v
                    ELSE old.isArchived]

\* C21: a successful PUT /notes/:id changes exactly those of title, content,
\* tags and isArchived that the body carries, to the supplied values, and
\* leaves id, owner and creation time of the note and every other note as
\* they were.
C21_PartialMerge ==
    \A header \in CallerHeaders, id \in NoteIds, body \in UpdateBodies :
        (Identity(header).ok /\ UpdateSchemaError(body) = "") =>
            LET out == UpdateNote(Identity(header).user, id, body, notes)
            IN  out.reply.status = 200 =>
                  \E old \in notes :
                      /\ NoteIdString(old._id) = id
                      /\ out.notes = (notes \ {old}) \cup {Merged(old, body)}

-----------------------------------------------------------------------------
(* Update without a recognised field (specification Spec)                  *)

NoRecognised(body) ==
    /\ ~body.title.has /\ ~body.content.has
    /\ ~body.tags.has /\ ~body.isArchived.has

\* C22: a PUT /notes/:id by the owner of a stored note whose body has none
\* of title, content, tags, isArchived (an empty body, or only other keys)
\* is answered 400 'No updates provided', and the store is left as it was.
C22_NoUpdates ==
    \A header \in CallerHeaders, id \in NoteIds, body \in UpdateBodies :
        (/\ \E n \in notes : NoteIdString(n._id) = id /\ OwnedBy(n, header)
         /\ UpdateSchemaError(body) = "" /\ NoRecognised(body)) =>
            LET out == UpdateNote(Identity(header).user, id, body, notes)
            IN  /\ out.reply.status = 400
                /\ out.reply.message = "No updates provided"
                /\ out.notes = notes

-----------------------------------------------------------------------------
(* POST /auth/register, await by await (specification SpecRegister)        *)

Slots == 1..MaxInflight

IdleSlot == [pc |-> "idle", email |-> "", password |-> "", name |-> ""]

RegisterFrame ==
    UNCHANGED <<proc, env, now, ticks, hin, hout, vres, notes, nextNid, req, g>>

\* a validated registration request enters the handler
RegisterArrive(s, email, password, name) ==
    /\ inflight[s].pc = "idle"
    /\ inflight' = [inflight EXCEPT ![s] = [pc |-> "find", email |-> email,
                                             password |-> password, name |-> name]]
    /\ UNCHANGED <<accounts, nextUid, issued, resp>>
    /\ RegisterFrame

\* const existingUser = await User.findOne({ email }), and the 409 reply
RegisterFind(s) ==
    /\ inflight[s].pc = "find"
    /\ IF FindUserByEmail(inflight[s].email) # {}
       THEN /\ resp' = Reply("POST /auth/register", 409, "Conflict",
                             "User already exists with this email")
            /\ inflight' = [inflight EXCEPT ![s] = IdleSlot]
       ELSE /\ inflight' = [inflight EXCEPT ![s].pc = "save"]
            /\ UNCHANGED resp
    /\ UNCHANGED <<accounts, nextUid, issued>>
    /\ RegisterFrame

\* the unique index on email refuses a second document with the same email
DuplicateKey(email) == \E u \in accounts : u.email = ToLower(email)

\* await user.save(), then the token and the 201 reply; a save the store
\* refuses throws an error that is not a ValidationError: the catch block
RegisterSave(s) ==
    /\ inflight[s].pc = "save"
    /\ IF DuplicateKey(inflight[s].email)
       THEN /\ resp' = Reply("POST /auth/register", 500, "Internal Server Error",
                             "Failed to register user")
            /\ UNCHANGED <<accounts, nextUid, issued>>
       ELSE LET user == [_id |-> nextUid + 1, email |-> ToLower(inflight[s].email),
                         name |-> inflight[s].name,
                         password |-> HashPassword(inflight[s].password)]
            IN  /\ nextUid < MaxUsers
                /\ accounts' = accounts \cup {user}
                /\ nextUid' = nextUid + 1
                /\ issued' = Hold(generateToken(user))
                /\ resp' = Reply("POST /auth/register", 201, "",
                                 "User registered successfully")
    /\ inflight' = [inflight EXCEPT ![s] = IdleSlot]
    /\ RegisterFrame

InitRegister ==
    /\ env = TestEnv
    /\ IdleClock
    /\ IdleExtract
    /\ IdleAccounts
    /\ IdleTokens
    /\ IdleNotes
    /\ IdleRequests
    /\ resp = NoResp
    /\ inflight = [s \in Slots |-> IdleSlot]
    /\ proc = NoProc

NextRegister ==
    \/ \E s \in Slots, e \in Emails, n \in Names : RegisterArrive(s, e, "password123", n)
    \/ \E s \in Slots : RegisterFind(s)
    \/ \E s \in Slots : RegisterSave(s)

SpecRegister == InitRegister /\ [][NextRegister]_vars

Answered(s) == inflight[s].pc \in {"find", "save"} /\ inflight'[s].pc = "idle"

UniqueEmails == \A u, v \in accounts : u.email = v.email => u = v

\* C23: no two accounts ever share an email, and a registration request
\* that is answered while its email already belongs to an account, the loser
\* of a race for that email included, gets 409 Conflict and creates no
\* account.
C23_Conflict ==
    /\ []UniqueEmails
    /\ [][\A s \in Slots :
            (Answered(s) /\ DuplicateKey(inflight[s].email)) =>
                resp'.status = 409 /\ accounts' = accounts]_vars

-----------------------------------------------------------------------------
(* Faults of the store (specification SpecGuard)                           *)

\* the account lookup of the guard was refused although the token names a
\* stored account: the lookup itself failed
LookupFaulted ==
    /\ g.guard = "mandatory" /\ g.pc = "lookup" /\ g'.pc = "rejected"
    /\ IsObjectIdString(g.payload.id)
    /\ FindUserById(ObjectId(g.payload.id)) # {}

\* C24: a fault of the store while a request is handled (here: during the
\* guard's account lookup) is answered with status 500 and a generic
\* message, and no response body ever carries the text of the underlying
\* error.
C24_Generic ==
    /\ [](g.reply.message # StoreFaultMessage)
    /\ [][LookupFaulted => /\ g'.reply.status = 500
                            /\ g'.reply.message # StoreFaultMessage]_vars

-----------------------------------------------------------------------------
(* Note requests that overlap (specification SpecRace): a handler runs up  *)
(* to its await of the store, other requests run, then the store applies   *)
(* the operation and the handler replies.                                  *)

\* two requests overlap
Racers == {1, 2}

RaceHeaders == {Absent} \cup FirstUser

RaceIds == {NoteIdString(n) : n \in 1..MaxNotes}

RaceBodies ==
    { [NoBody EXCEPT !.title = Some("b")],
      [NoBody EXCEPT !.title = Some("d"), !.content = Some("e")],
      [NoBody EXCEPT !.content = Some("f"), !.isArchived = Some(TRUE)] }

RaceQueries == {NoQuery, [NoQuery EXCEPT !.limit = Some(1)]}

IdleRacer ==
    [pc |-> "idle", caller |-> NoClaims, id |-> "", body |-> NoBody,
     query |-> NoQuery, reads |-> {}, found |-> <<>>, counted |-> {},
     reply |-> NoResp, stamp |-> 0, over |-> FALSE]

RaceFrame ==
    UNCHANGED <<proc, env, now, ticks, hin, hout, accounts, nextUid, issued, vres,
                nextNid, req, g>>

\* reply.send: the response leaves; stamp is its rank among the responses
\* sent since the slots were last cleared, over tells that another request
\* was waiting for the store when this one started to wait
Finish(s, reply) ==
    /\ inflight' = [inflight EXCEPT ![s] =
            [@ EXCEPT !.pc = "done", !.reply = reply, !.reads = {},
                      !.found = <<>>, !.counted = {},
                      !.stamp = 1 + Cardinality({t \in Racers :
                                                   inflight[t].pc = "done"})]]
    /\ resp' = reply

Await(s, pc, caller, id, body, query) ==
    /\ inflight' = [inflight EXCEPT ![s] =
            [IdleRacer EXCEPT !.pc = pc, !.caller = caller, !.id = id,
                              !.body = body, !.query = query,
                              !.over = \E t \in Racers :
                                          inflight[t].pc \notin {"idle", "done"}]]
    /\ UNCHANGED resp

\* PUT /notes/:id up to await Note.findOneAndUpdate(...)
PutArrive(s) ==
    /\ inflight[s].pc = "idle"
    /\ \E header \in RaceHeaders, id \in RaceIds, body \in RaceBodies :
         LET auth == authMiddleware(header, FALSE)
         IN  IF UpdateSchemaError(body) # ""
             THEN Finish(s, SchemaRejection("PUT /notes/:id", UpdateSchemaError(body)))
             ELSE IF ~auth.ok THEN Finish(s, Rejection("PUT /notes/:id", auth))
             ELSE IF ~IsValidNoteId(id) \/ NoKeys(body)
             THEN Finish(s, UpdateNote(auth.user, id, body, notes).reply)
             ELSE Await(s, "update", auth.user, id, body, NoQuery)
    /\ UNCHANGED notes
    /\ RaceFrame

\* the store applies findOneAndUpdate; the handler replies
PutApply(s) ==
    /\ inflight[s].pc = "update"
    /\ LET out == UpdateNote(inflight[s].caller, inflight[s].id, inflight[s].body, notes)
       IN  /\ notes' = out.notes
           /\ Finish(s, out.reply)
    /\ RaceFrame

\* DELETE /notes/:id up to await Note.findOneAndDelete(...)
DeleteArrive(s) ==
    /\ inflight[s].pc = "idle"
    /\ \E header \in RaceHeaders, id \in RaceIds :
         LET auth == authMiddleware(header, FALSE)
         IN  IF ~auth.ok THEN Finish(s, Rejection("DELETE /notes/:id", auth))
             ELSE IF ~IsValidNoteId(id)
             THEN Finish(s, DeleteNote(auth.user, id, notes).reply)
             ELSE Await(s, "delete", auth.user, id, NoBody, NoQuery)
    /\ UNCHANGED notes
    /\ RaceFrame

\* the store applies findOneAndDelete; the handler replies
DeleteApply(s) ==
    /\ inflight[s].pc = "delete"
    /\ LET out == DeleteNote(inflight[s].caller, inflight[s].id, notes)
       IN  /\ notes' = out.notes
           /\ Finish(s, out.reply)
    /\ RaceFrame

\* GET /notes up to await Promise.all([find, countDocuments])
ListArrive(s) ==
    /\ inflight[s].pc = "idle"
    /\ \E header \in RaceHeaders, q \in RaceQueries :
         LET auth == authMiddleware(header, FALSE)
         IN  IF QuerySchemaError(q) # ""
             THEN Finish(s, SchemaRejection("GET /notes", QuerySchemaError(q)))
             ELSE IF ~auth.ok THEN Finish(s, Rejection("GET /notes", auth))
             ELSE Await(s, "list", auth.user, "", NoBody, q)
    /\ UNCHANGED notes
    /\ RaceFrame

\* the store answers Note.find(filter).sort(...).skip(...).limit(...)
ListFind(s) ==
    /\ inflight[s].pc = "list" /\ "find" \notin inflight[s].reads
    /\ \E sorted \in Orderings(Matching(inflight[s].caller, inflight[s].query, notes)) :
         IF "count" \in inflight[s].reads
         THEN Finish(s, ListNotes(inflight[s].caller, inflight[s].query,
                                  inflight[s].counted, sorted))
         ELSE /\ inflight' = [inflight EXCEPT ![s].reads = @ \cup {"find"},
                                              ![s].found = sorted]
              /\ UNCHANGED resp
    /\ UNCHANGED notes
    /\ RaceFrame

\* the store answers Note.countDocuments(filter)
ListCount(s) ==
    /\ inflight[s].pc = "list" /\ "count" \notin inflight[s].reads
    /\ LET counted == Matching(inflight[s].caller, inflight[s].query, notes)
       IN  IF "find" \in inflight[s].reads
           THEN Finish(s, ListNotes(inflight[s].caller, inflight[s].query,
                                    counted, inflight[s].found))
           ELSE /\ inflight' = [inflight EXCEPT ![s].reads = @ \cup {"count"},
                                                ![s].counted = counted]
                /\ UNCHANGED resp
    /\ UNCHANGED notes
    /\ RaceFrame

\* POST /notes: one store operation, note.save()
RaceCreate == PostNoteWith(FirstUser, {GoodBody}, MaxNotes)

\* every response has been received; the clients send new requests
Settle ==
    /\ \A s \in Racers : inflight[s].pc \in {"idle", "done"}
    /\ \E s \in Racers : inflight[s].pc = "done"
    /\ inflight' = [s \in Racers |-> IdleRacer]
    /\ UNCHANGED <<notes, resp>>
    /\ RaceFrame

InitRace ==
    /\ env = TestEnv
    /\ IdleClock
    /\ IdleExtract
    /\ accounts = TestUsers
    /\ nextUid = 2
    /\ issued = {generateToken(u) : u \in TestUsers}
    /\ vres = NoVres
    /\ IdleNotes
    /\ IdleRequests
    /\ resp = NoResp
    /\ inflight = [s \in Racers |-> IdleRacer]
    /\ proc = NoProc

NextRace ==
    \/ RaceCreate
    \/ \E s \in Racers : PutArrive(s)
    \/ \E s \in Racers : PutApply(s)
    \/ \E s \in Racers : DeleteArrive(s)
    \/ \E s \in Racers : DeleteApply(s)
    \/ \E s \in Racers : ListArrive(s)
    \/ \E s \in Racers : ListFind(s)
    \/ \E s \in Racers : ListCount(s)
    \/ Settle

SpecRace == InitRace /\ [][NextRace]_vars

-----------------------------------------------------------------------------
(* Last write wins (specification SpecRace)                                *)

\* the updates of note n that were answered 200 and whose responses the
\* clients hold
Writers(n) ==
    {s \in Racers : /\ inflight[s].pc = "done"
                    /\ inflight[s].reply.route = "PUT /notes/:id"
                    /\ inflight[s].reply.status = 200
                    /\ inflight[s].id = NoteIdString(n._id)}

Last(W) == CHOOSE s \in W : \A t \in W : inflight[t].stamp <= inflight[s].stamp

C25_Final ==
    \A n \in notes :
      LET T == {s \in Writers(n) : inflight[s].body.title.has}
          C == {s \in Writers(n) : inflight[s].body.content.has}
          G == {s \in Writers(n) : inflight[s].body.tags.has}
          A == {s \in Writers(n) : inflight[s].body.isArchived.has}
      IN  /\ T # {} => n.title = inflight[Last(T)].body.title.v
          /\ C # {} => n.content = inflight[Last(C)].body.content.v
          /\ G # {} => n.tags = TrimmedNonEmpty(inflight[Last(G)].body.tags.v)
          /\ A # {} => n.isArchived = inflight[Last(A)].body.isArchived.v

C25_Step ==
    \A s \in Racers :
        (inflight[s].pc = "update" /\ inflight'[s].pc = "done") =>
            \A old \in FindOwned(notes, inflight[s].id, inflight[s].caller) :
                /\ inflight'[s].reply.status = 200
                /\ notes' = (notes \ {old}) \cup {Merged(old, inflight[s].body)}

-----------------------------------------------------------------------------
(* The preHandler hook of createApp that connects to the store             *)
(* (specification SpecConnect)                                             *)

Urls == {"/health", "/docs/json", "/notes", "/auth/login"}

\* request.url === '/health' || request.url.startsWith('/docs')
SkipsConnect(url) == url \in {"/health", "/docs/json"}

\* DatabaseConfig.getConnectionStatus(): a connection is established
getConnectionStatus == proc.db = "up"

IdleHook == [pc |-> "idle", url |-> ""]

ConnectFrame ==
    UNCHANGED <<env, now, ticks, hin, hout, accounts, nextUid, issued, vres,
                notes, nextNid, req, g>>

\* the hook up to its await: return, or call dbConfig.connect()
HookEnter(s, url) ==
    /\ inflight[s].pc = "idle"
    /\ IF SkipsConnect(url) \/ getConnectionStatus
       THEN /\ inflight' = [inflight EXCEPT ![s] = [pc |-> "handler", url |-> url]]
            /\ UNCHANGED proc
       ELSE /\ inflight' = [inflight EXCEPT ![s] = [pc |-> "connecting", url |-> url]]
            /\ proc' = [proc EXCEPT !.pending = @ + 1]
    /\ UNCHANGED resp
    /\ ConnectFrame

\* await dbConfig.connect() resolves
ConnectDone(s) ==
    /\ inflight[s].pc = "connecting"
    /\ inflight' = [inflight EXCEPT ![s].pc = "handler"]
    /\ proc' = [proc EXCEPT !.pending = @ - 1, !.db = "up"]
    /\ UNCHANGED resp
    /\ ConnectFrame

\* await dbConfig.connect() rejects: the catch block answers 503
ConnectFail(s) ==
    /\ inflight[s].pc = "connecting"
    /\ inflight' = [inflight EXCEPT ![s] = IdleHook]
    /\ proc' = [proc EXCEPT !.pending = @ - 1]
    /\ resp' = Reply(inflight[s].url, 503, "Service Unavailable",
                     "Database connection failed")
    /\ ConnectFrame

\* the route handler runs and replies
HandlerDone(s) ==
    /\ inflight[s].pc = "handler"
    /\ inflight' = [inflight EXCEPT ![s] = IdleHook]
    /\ resp' = Reply(inflight[s].url, 200, "", "")
    /\ UNCHANGED proc
    /\ ConnectFrame

InitConnect ==
    /\ env = TestEnv
    /\ IdleClock
    /\ IdleExtract
    /\ IdleAccounts
    /\ IdleTokens
    /\ IdleNotes
    /\ IdleRequests
    /\ resp = NoResp
    /\ inflight = [s \in Slots |-> IdleHook]
    /\ proc = NoProc

NextConnect ==
    \/ \E s \in Slots, url \in Urls : HookEnter(s, url)
    \/ \E s \in Slots : ConnectDone(s)
    \/ \E s \in Slots : ConnectFail(s)
    \/ \E s \in Slots : HandlerDone(s)

SpecConnect == InitConnect /\ [][NextConnect]_vars

ConnectCalled == proc'.pending > proc.pending

\* C26: connect is called only when no connection is up and none is being
\* established, so at most one call is in progress at any time, also when
\* several first requests arrive together; requests to /health and /docs
\* never call it.
C26_ConnectOnce ==
    /\ [](proc.pending <= 1)
    /\ [](\A s \in Slots : inflight[s].pc = "connecting" =>
                                ~SkipsConnect(inflight[s].url))
    /\ [][ConnectCalled => proc.db = "down" /\ proc.pending = 0]_vars

-----------------------------------------------------------------------------
(* Delete is permanent (specification SpecRace)                            *)

Stored == {n._id : n \in notes}

\* ids are handed out in sequence and never reused: an id that was handed
\* out and is not stored belongs to a deleted note
Deleted == (1..nextNid) \ Stored

C27_Gone ==
    \A k \in Deleted, header \in CallerHeaders :
        Identity(header).ok =>
            LET caller == Identity(header).user
            IN  /\ GetNote(caller, NoteIdString(k), notes).reply.status = 404
                /\ DeleteNote(caller, NoteIdString(k), notes).reply.status = 404
                /\ \A body \in RaceBodies :
                      /\ UpdateNote(caller, NoteIdString(k), body, notes).reply.status = 404
                      /\ UpdateNote(caller, NoteIdString(k), body, notes).notes = notes

C27_Step ==
    /\ Deleted \subseteq (1..nextNid') \ {n._id : n \in notes'}
    /\ \A s \in Racers :
          (/\ inflight[s].pc \in {"update", "delete"} /\ inflight'[s].pc = "done"
           /\ \E k \in Deleted : NoteIdString(k) = inflight[s].id) =>
              inflight'[s].reply.status = 404

-----------------------------------------------------------------------------
(* Login failures (specification SpecToken)                                *)

LoginFailure ==
    Reply("POST /auth/login", 401, "Unauthorized", "Invalid email or password")

NoAccount(email) == \A u \in accounts : u.email # ToLower(email)

C28_State ==
    \A e \in Emails, pw \in Passwords :
        (NoAccount(e) \/ \A u \in accounts : u.email = ToLower(e) =>
                                                u.password # HashPassword(pw)) =>
            LoginReply(e, pw) = LoginFailure

C28_Step ==
    (resp'.route = "POST /auth/login" /\ resp'.status # 200) =>
        resp' = LoginFailure /\ issued' = issued

\* C28: a login with an email that has no account and a login with an
\* existing email and a wrong password get the same response (401,
\* 'Unauthorized', 'Invalid email or password'), and neither issues a token.
C28_SameFailure == []C28_State /\ [][C28_Step]_vars

\* a login was refused while one email has an account, whose password one
\* of the passwords is not, and another email has none
C28_Witness ==
    /\ resp = LoginFailure
    /\ \E e \in Emails : NoAccount(e)
    /\ \E e \in Emails, pw \in Passwords :
          /\ ~NoAccount(e)
          /\ \A u \in accounts : u.email = ToLower(e) => u.password # HashPassword(pw)

-----------------------------------------------------------------------------
(* A list while notes are created or deleted (specification SpecRace)      *)

\* C29: the page of a list response and its pagination describe the same
\* set of notes, also when creates or deletes of the same owner overlap with
\* the request: the number of notes returned is
\* min(limit, max(0, totalNotes - skip)).
C29_Consistent ==
    \A s \in Racers :
        (/\ inflight[s].pc = "done"
         /\ inflight[s].reply.route = "GET /notes"
         /\ inflight[s].reply.status = 200) =>
            LET q     == inflight[s].query
                page  == IF q.page.has THEN q.page.v ELSE DefaultPage
                limit == IF q.limit.has THEN q.limit.v ELSE DefaultLimit
                skip  == (page - 1) * limit
                total == inflight[s].reply.pagination.totalNotes
                rest  == IF total - skip > 0 THEN total - skip ELSE 0
            IN  Len(inflight[s].reply.data) = (IF limit < rest THEN limit ELSE rest)

-----------------------------------------------------------------------------
(* The serverless handlers and the cached application instance             *)
(* (specification SpecServerless).  An instance is a number from 1;        *)
(* proc.attempts[a] counts the times the routes were registered on a.      *)

Handlers == {"vercel", "lambda"}

\* the routes that authRoutes and noteRoutes declare
Routes ==
    { <<"POST", "/auth/register">>, <<"POST", "/auth/login">>,
      <<"GET", "/auth/profile">>, <<"POST", "/notes">>, <<"GET", "/notes">>,
      <<"GET", "/notes/:id">>, <<"PUT", "/notes/:id">>, <<"DELETE", "/notes/:id">> }

\* fastifyApp.hasRoute({ method, url })
hasRoute(a, method, url) == proc.attempts[a] > 0 /\ <<method, url>> \in Routes

IdleCall == [pc |-> "idle", via |-> "", app |-> 0]

ServerlessFrame ==
    UNCHANGED <<env, now, ticks, hin, hout, accounts, nextUid, issued, vres,
                notes, nextNid, req, g>>

\* an invocation: getApp returns cachedApp, or createApp is called
Invoke(s, via) ==
    /\ inflight[s].pc = "idle"
    /\ inflight' = [inflight EXCEPT ![s] =
            IF via = "vercel" /\ proc.cachedApp # 0
            THEN [pc |-> "inject", via |-> via, app |-> proc.cachedApp]
            ELSE [pc |-> "create", via |-> via, app |-> 0]]
    /\ UNCHANGED <<proc, resp>>
    /\ ServerlessFrame

\* AppConfig.createApp up to its first await: the stored instance is
\* returned, or a new Fastify instance is built
createApp(s) ==
    /\ inflight[s].pc = "create"
    /\ IF proc.instance # 0
       THEN /\ inflight' = [inflight EXCEPT ![s].pc = "register",
                                            ![s].app = proc.instance]
            /\ UNCHANGED proc
       ELSE /\ proc.created < MaxBoots
            /\ inflight' = [inflight EXCEPT ![s].pc = "building",
                                            ![s].app = proc.created + 1]
            /\ proc' = [proc EXCEPT !.created = @ + 1,
                                    !.attempts = Append(@, 0)]
    /\ UNCHANGED resp
    /\ ServerlessFrame

\* createApp after its awaits: AppConfig.instance = app
createAppDone(s) ==
    /\ inflight[s].pc = "building"
    /\ proc' = [proc EXCEPT !.instance = inflight[s].app]
    /\ inflight' = [inflight EXCEPT ![s].pc = "register"]
    /\ UNCHANGED resp
    /\ ServerlessFrame

\* the lambda handler tests hasRoute first; then app.register(authRoutes),
\* app.register(noteRoutes); registering on an instance that has the routes
\* throws, and the handler's catch answers 500
RegisterRoutes(s) ==
    /\ inflight[s].pc = "register"
    /\ LET a == inflight[s].app
       IN  IF inflight[s].via = "lambda" /\ hasRoute(a, "GET", "/auth/register")
           THEN /\ inflight' = [inflight EXCEPT ![s].pc = "inject"]
                /\ UNCHANGED <<proc, resp>>
           ELSE /\ proc.attempts[a] < MaxBoots
                /\ IF proc.attempts[a] > 0
                   THEN /\ inflight' = [inflight EXCEPT ![s] = IdleCall]
                        /\ resp' = Reply(inflight[s].via, 500, "Internal Server Error",
                                         "Something went wrong")
                        /\ proc' = [proc EXCEPT !.attempts[a] = @ + 1]
                   ELSE /\ inflight' = [inflight EXCEPT ![s].pc = "inject"]
                        /\ UNCHANGED resp
                        /\ proc' = [proc EXCEPT
                               !.attempts[a] = @ + 1,
                               !.cachedApp = IF inflight[s].via = "vercel"
                                             THEN a ELSE @]
    /\ ServerlessFrame

\* app.inject(...) and the response
Inject(s) ==
    /\ inflight[s].pc = "inject"
    /\ inflight' = [inflight EXCEPT ![s] = IdleCall]
    /\ resp' = Reply(inflight[s].via, 200, "", "")
    /\ UNCHANGED proc
    /\ ServerlessFrame

InitServerless ==
    /\ env = TestEnv
    /\ IdleClock
    /\ IdleExtract
    /\ IdleAccounts
    /\ IdleTokens
    /\ IdleNotes
    /\ IdleRequests
    /\ resp = NoResp
    /\ inflight = [s \in Slots |-> IdleCall]
    /\ proc = NoProc

NextServerless ==
    \/ \E s \in Slots, via \in Handlers : Invoke(s, via)
    \/ \E s \in Slots : createApp(s)
    \/ \E s \in Slots : createAppDone(s)
    \/ \E s \in Slots : RegisterRoutes(s)
    \/ \E s \in Slots : Inject(s)

SpecServerless == InitServerless /\ [][NextServerless]_vars

\* C30: in one process the application instance is built once and the auth
\* and note routes are registered on it once: no invocation after the first
\* builds another instance or registers the routes again.
C30_Once ==
    /\ proc.created <= 1
    /\ \A a \in DOMAIN proc.attempts : proc.attempts[a] <= 1

====
